---- MODULE Spec2Model ----
(***************************************************************************)
(* A model of the context-free grammar engine of alekfrohlich/cfg:        *)
(* src/context_free/grammar.py (ContextFreeGrammar and its transforms,    *)
(* FIRST/FOLLOW, the LL(1) table) and src/context_free/parser.py          *)
(* (PredictiveParser).                                                    *)
(*                                                                         *)
(* Symbols are strings.  A production (a Python tuple of symbols) is a    *)
(* sequence of strings; the epsilon production ("&",) is <<"&">>.  An      *)
(* OrderedSet is a sequence without repetition, in insertion order.  The  *)
(* bracketed names of the source, U+276C name U+276D, are written         *)
(* "<name>".                                                              *)
(***************************************************************************)
EXTENDS Integers, Sequences, FiniteSets, TLC

VARIABLES
    variables,   \* self.variables : OrderedSet of variable names
    terminals,   \* self.terminals : OrderedSet of terminals
    rules,       \* self.rules     : dict variable -> OrderedSet of productions
    start,       \* self.start
    hist,        \* the calls made on the grammar so far, oldest first
    pre,         \* the grammar as it was before the last call
    raised,      \* whether the last call raised an exception
    first,       \* self.first  : dict symbol -> OrderedSet
    follow,      \* self.follow : dict variable -> OrderedSet
    table,       \* self.table  : dict (variable, terminal or $) -> production id or -1
    id_to_prod,  \* self.id_to_prod : production id -> (head, body)
    printed,     \* the messages the calls have printed
    returned,    \* what the last call of firsts or left_factoring returned
    parser,      \* the PredictiveParser made from the table, or NoParser
    string,      \* parse: the input with "$" appended
    stack,       \* parse: its stack
    pos,         \* parse: i, the input position, counted from 0
    result,      \* parse: "running", "accept" (True), "reject" (False) or "error"
    other,       \* a second invocation of parse on the same parser: its own string, stack, i and result
    pc           \* how far the analysis of the grammar has got

gvars == <<variables, terminals, rules, start>>

(***************************************************************************)
(* Bounds of the model.                                                    *)
(***************************************************************************)
MaxProds == 2     \* alternatives per variable in a loaded grammar
MaxOps == 2       \* calls made on one grammar
MaxWordLen == 3   \* length of the terminal strings languages are compared on
MaxSize == 8      \* symbols in the productions of a grammar a call is made on
MaxStack == 8     \* height of the stack of parse, for each symbol it has read, up to which a variable is expanded

(***************************************************************************)
(* The ordered-set container (oset.ordered_set.OrderedSet).                *)
(***************************************************************************)
Range(s) == {s[i] : i \in 1..Len(s)}

OsAdd(s, x) == IF x \in Range(s) THEN s ELSE Append(s, x)

\* s.update(t): the elements of t that are new, each once, in the order of t
OsUpdate(s, t) ==
    LET new == SelectSeq([i \in 1..Len(t) |-> i],
                         LAMBDA i : t[i] \notin Range(s) /\ \A j \in 1..(i - 1) : t[j] # t[i])
    IN s \o [n \in 1..Len(new) |-> t[new[n]]]

OsDiscard(s, x) == SelectSeq(s, LAMBDA y : y # x)

OrderedSet(t) == OsUpdate(<<>>, t)

\* the concatenation, in order, of a sequence of ordered sets
RECURSIVE OsUnionRange(_, _, _)
OsUnionRange(ss, lo, hi) ==
    IF lo > hi THEN <<>>
    ELSE IF lo = hi THEN OsUpdate(<<>>, ss[lo])
    ELSE OsUpdate(OsUnionRange(ss, lo, (lo + hi) \div 2),
                  OsUnionRange(ss, (lo + hi) \div 2 + 1, hi))

OsUnionAll(ss) == OsUnionRange(ss, 1, Len(ss))

(***************************************************************************)
(* The grammar object.                                                     *)
(***************************************************************************)
EPS == <<"&">>

Self == [variables |-> variables, terminals |-> terminals, rules |-> rules, start |-> start]

(***************************************************************************)
(* Names.  The variables the transforms make are named after a variable or *)
(* numbered; the characters of a name are what iterating over the Python   *)
(* str yields.                                                             *)
(***************************************************************************)
\* remove_epsilon's new start, remove_left_recursion's new variable
augmented_start(s) == "<'" \o s \o ">"
primed(v) == "<" \o v \o "'>"

\* replace_terminals' and reduce_size's new variables
R_name(id) == "<R" \o ToString(id) \o ">"
C_name(number_v, id) == "<C(" \o ToString(number_v) \o "," \o ToString(id) \o ")>"

MaxId == 19       \* the greatest number a generated name carries in the model

\* the characters of str(n)
digits(n) == IF n < 10 THEN <<ToString(n)>> ELSE <<ToString(n \div 10), ToString(n % 10)>>

\* the names remove_epsilon and remove_left_recursion make from the names of N,
\* each with its characters
Wrapped(N) ==
    {<<primed(v[1]), <<"<">> \o v[2] \o <<"'", ">">>>> : v \in N}
    \cup {<<augmented_start(v[1]), <<"<", "'">> \o v[2] \o <<">">>>> : v \in N}

RECURSIVE Nested(_, _)
Nested(N, depth) == IF depth = 0 THEN N ELSE N \cup Nested(Wrapped(N), depth - 1)

\* the names replace_terminals and reduce_size make, each with its characters
Generated ==
    {<<R_name(id), <<"<", "R">> \o digits(id) \o <<">">>>> : id \in 1..MaxId}
    \cup {<<C_name(n[1], n[2]),
            <<"<", "C", "(">> \o digits(n[1]) \o <<",">> \o digits(n[2]) \o <<")", ">">>>> :
               n \in (0..MaxId) \X (0..MaxId)}

\* the names left_factoring makes, each with its characters
Factored ==
    {<<"<" \o c \o "," \o ToString(id) \o ">", <<"<", c, ",">> \o digits(id) \o <<">">>>> :
        c \in {"S", "A", "B", "'", "R", "C", "<"}, id \in 1..(MaxId + 1)}

Names ==
    Nested({<<v, <<v>>>> : v \in {"S", "A", "B"}}, MaxOps + 2)
    \cup Generated \cup Wrapped(Generated) \cup Factored \cup Wrapped(Factored)

NameChars == [s \in {v[1] : v \in Names} |-> (CHOOSE v \in Names : v[1] = s)[2]]

RECURSIVE Join(_)
Join(cs) == IF cs = <<>> THEN "" ELSE Head(cs) \o Join(Tail(cs))

\* the characters of a symbol
chars(s) == IF Len(s) <= 1 THEN IF s = "" THEN <<>> ELSE <<s>> ELSE NameChars[s]

(***************************************************************************)
(* A production is a tuple of symbols, except the one remove_unproductives *)
(* makes for an empty language: there the source adds self.start itself, a *)
(* str, whose elements are its characters.  The elements of a str are      *)
(* written in_str(c), so that a str never equals a tuple; item(x) is the   *)
(* value the source reads when it takes element x out of a production.     *)
(***************************************************************************)
in_str(c) == "str " \o c

\* the characters of the names
NameAlphabet ==
    {"S", "A", "B", "<", ">", "'", "R", "C", "(", ")", ","} \cup {ToString(d) : d \in 0..9}

StrItems == {in_str(c) : c \in NameAlphabet}

Plain == [x \in StrItems |-> CHOOSE c \in NameAlphabet : in_str(c) = x]

item(x) == IF x \in StrItems THEN Plain[x] ELSE x

\* type(prod) is str
is_str(prod) == prod # <<>> /\ prod[1] \in StrItems

\* the str s as a production
as_str(s) == [n \in 1..Len(chars(s)) |-> in_str(chars(s)[n])]

\* tuple(prod), list(prod): the elements of prod, one by one
as_tuple(prod) == [n \in 1..Len(prod) |-> item(prod[n])]

\* str.isupper on the one-character names the loaded grammars use
isupper(c) == c \in {"S", "A", "B"}

\* the symbols of a sequence of productions, in order of appearance
RECURSIVE Flatten(_)
Flatten(ps) == IF ps = <<>> THEN <<>> ELSE Head(ps) \o Flatten(Tail(ps))

\* ContextFreeGrammar.__init__ on a file with one line per entry of vs: vs[i] -> the alternatives R[vs[i]]
Load(vs, R) ==
    [variables |-> vs,
     terminals |-> OrderedSet(SelectSeq(Flatten(Flatten([i \in 1..Len(vs) |-> R[vs[i]]])),
                                         LAMBDA c : Len(c) = 1 /\ ~isupper(c) /\ c # "&")),
     rules     |-> R,
     start     |-> vs[1]]

(***************************************************************************)
(* __str__ and the reading of a file by __init__.  A text is the sequence  *)
(* of its characters.                                                      *)
(***************************************************************************)
NL == "\n"

\* "".join(rule)
RECURSIVE join(_)
join(rule) == IF rule = <<>> THEN <<>> ELSE chars(item(Head(rule))) \o join(Tail(rule))

\* "{} " for the first rule, "| {} " for the others
RECURSIVE alternatives(_, _)
alternatives(prods, k) ==
    IF k > Len(prods) THEN <<>>
    ELSE (IF k = 1 THEN <<>> ELSE <<"|", " ">>) \o join(prods[k]) \o <<" ">>
         \o alternatives(prods, k + 1)

\* string[:-1]
butlast(text) == SubSeq(text, 1, Len(text) - 1)

\* the lines of the variables other than start, in the order of self.variables
RECURSIVE str_others(_, _)
str_others(G, k) ==
    IF k > Len(G.variables) THEN <<>>
    ELSE LET var == G.variables[k]
         IN (IF var = G.start THEN <<>>
             ELSE butlast(chars(var) \o <<" ", "-", ">", " ">> \o alternatives(G.rules[var], 1))
                  \o <<NL>>)
            \o str_others(G, k + 1)

\* __str__: the line of start first; a start without rules gives an empty line
str(G) ==
    butlast(IF G.rules[G.start] = <<>> THEN <<>>
            ELSE chars(G.start) \o <<" ", "-", ">", " ">> \o alternatives(G.rules[G.start], 1))
    \o <<NL>> \o str_others(G, 1)

\* str.split(sep): the pieces between the separators, empty ones kept
split(text, sep) ==
    LET cuts == {0, Len(text) + 1} \cup {i \in 1..Len(text) : text[i] = sep}
        cut(n) == CHOOSE c \in cuts : Cardinality({d \in cuts : d < c}) = n
    IN [n \in 1..(Cardinality(cuts) - 1) |-> SubSeq(text, cut(n - 1) + 1, cut(n) - 1)]

\* line.split(): the runs of characters between spaces
items_of(line) == SelectSeq(split(line, " "), LAMBDA piece : piece # <<>>)

NoSymbol == "?"   \* stands for the token of a bracket that is never closed

\* the tokens of raw; i counts from 1
RECURSIVE tokenize(_, _)
tokenize(raw, i) ==
    IF i > Len(raw) THEN <<>>
    ELSE IF raw[i] = "<"
         THEN IF \E j \in (i + 1)..Len(raw) : raw[j] = ">"
              THEN LET j == CHOOSE j \in (i + 1)..Len(raw) :
                                raw[j] = ">" /\ \A m \in (i + 1)..(j - 1) : raw[m] # ">"
                   IN <<IF j - i + 1 > 3 THEN Join(SubSeq(raw, i, j)) ELSE NoSymbol>>
                      \o tokenize(raw, j + 1)
              ELSE <<NoSymbol>>
         ELSE <<raw[i]>> \o tokenize(raw, i + 1)

\* the alternatives of a line: items[2], items[4], ...
line_prods(items) ==
    OrderedSet([n \in 1..((Len(items) - 1) \div 2) |-> tokenize(items[2 * n + 1], 1)])

NoStart == "None"

\* "for line in lines": g is the object under construction
RECURSIVE read_lines(_, _, _)
read_lines(lines, k, g) ==
    IF k > Len(lines) THEN g
    ELSE IF lines[k] = lines[Len(lines)]
         THEN read_lines(lines, k + 1, [g EXCEPT !.raised = g.raised \/ Len(lines[k]) # 0])
         ELSE LET items == items_of(lines[k])
                  var == Join(items[1])
                  prods == line_prods(items)
                  valid == \/ Len(items[1]) = 1 /\ isupper(var)
                           \/ items[1][1] = "<" /\ items[1][Len(items[1])] = ">" /\ Len(items[1]) > 2
                  terms == SelectSeq(Flatten(prods),
                                     LAMBDA c : Len(c) = 1 /\ ~isupper(c) /\ c # "&")
              IN read_lines(lines, k + 1,
                    [variables |-> OsAdd(g.variables, var),
                     terminals |-> OsUpdate(g.terminals, terms),
                     rules     |-> [x \in DOMAIN g.rules \cup {var} |->
                                       IF x = var THEN prods ELSE g.rules[x]],
                     start     |-> IF g.start = NoStart THEN var ELSE g.start,
                     raised    |-> g.raised \/ ~valid \/ NoSymbol \in Range(Flatten(prods))])

\* ContextFreeGrammar.__init__ on a file holding text; raised when an assertion
\* of the reading or of CHECK_GRAMMAR fails
construct(text) ==
    LET g == read_lines(split(text, NL), 1,
                        [variables |-> <<>>, terminals |-> <<>>, rules |-> <<>>,
                         start |-> NoStart, raised |-> FALSE])
    IN [g EXCEPT !.raised = g.raised \/ Len(g.variables) = 0 \/ g.start \notin Range(g.variables)]

(***************************************************************************)
(* Graph reachability: the bfs helpers of has_cycle, remove_unit,          *)
(* remove_unreachables.  edges maps each vertex to the set of its          *)
(* successors; the result is the set of vertices marked visited.           *)
(***************************************************************************)
RECURSIVE bfs_visit(_, _, _)
bfs_visit(edges, visited, q) ==
    IF q = <<>> THEN visited
    ELSE LET v == q[Len(q)]                               \* q.pop()
             fresh == SelectSeq(edges[v], LAMBDA u : u \notin visited)
         IN bfs_visit(edges, visited \cup Range(fresh), SubSeq(q, 1, Len(q) - 1) \o fresh)

bfs(edges, s) == bfs_visit(edges, {s}, <<s>>)

(***************************************************************************)
(* has_e                                                                   *)
(***************************************************************************)
has_e(G) ==
    \E i \in 1..Len(G.variables) :
        LET v == G.variables[i] IN v # G.start /\ EPS \in Range(G.rules[v])

(***************************************************************************)
(* remove_epsilon                                                          *)
(***************************************************************************)
STRUCK == "eps"   \* the marker the source writes in a struck position

\* the fixed point of the loop "while changed" over self.rules.items()
RECURSIVE nullables_fix(_, _)
nullables_fix(R, N) ==
    LET N2 == N \cup {v \in DOMAIN R : \E i \in 1..Len(R[v]) : Range(as_tuple(R[v][i])) \subseteq N}
    IN IF N2 = N THEN N ELSE nullables_fix(R, N2)

\* the last step of power_set: each cut is built anew as a tuple of the
\* elements that are not struck; the non-empty ones are kept
strike_out(cuts) ==
    OrderedSet(SelectSeq([k \in 1..Len(cuts) |->
                             SelectSeq(as_tuple(cuts[k]), LAMBDA c2 : c2 # STRUCK)],
                         LAMBDA new_c : Len(new_c) > 0))

\* a wrong power_set, to test C9_AllCuts against: it replaces the cuts by their
\* struck copies where the source adds the struck copies to them
RECURSIVE power_set_struck_only(_, _, _)
power_set_struck_only(i, cuts, nullables) ==
    IF i = Len(cuts[1]) THEN strike_out(cuts)
    ELSE IF item(cuts[1][i + 1]) \in nullables
         THEN power_set_struck_only(i + 1,
                                    [k \in 1..Len(cuts) |-> [cuts[k] EXCEPT ![i + 1] = STRUCK]],
                                    nullables)
         ELSE power_set_struck_only(i + 1, cuts, nullables)

\* power_set(i, cuts), i counted from 0 as in the source.  The striking
\* s[:i] + ("eps",) + s[i+1:] is that of tuples: the characters of a str
\* production are those of an unproductive start, none of them nullable.
RECURSIVE power_set(_, _, _)
power_set(i, cuts, nullables) ==
    IF i = Len(cuts[1]) THEN strike_out(cuts)
    ELSE IF item(cuts[1][i + 1]) \in nullables
         THEN power_set(i + 1,
                        OsUpdate(cuts, [k \in 1..Len(cuts) |->
                                           [cuts[k] EXCEPT ![i + 1] = STRUCK]]),
                        nullables)
         ELSE power_set(i + 1, cuts, nullables)

\* a wrong remove_epsilon, to test C7_EpsilonFree against: it adds the cuts but
\* does not discard the epsilon production
remove_epsilon_keeping(G) ==
    LET nullables == nullables_fix(G.rules, {"&"})
        to_add(var) == OsUnionAll([k \in 1..Len(G.rules[var]) |->
                                      power_set(0, <<G.rules[var][k]>>, nullables)])
        R1 == [var \in DOMAIN G.rules |->
                  IF var \in Range(G.variables)
                  THEN OsUpdate(G.rules[var], to_add(var))
                  ELSE G.rules[var]]
        new == augmented_start(G.start)
    IN IF G.start \in nullables
       THEN [variables |-> OsAdd(G.variables, new),
             terminals |-> G.terminals,
             rules     |-> [k \in DOMAIN R1 \cup {new} |->
                               IF k = new THEN <<<<G.start>>, EPS>> ELSE R1[k]],
             start     |-> new]
       ELSE [G EXCEPT !.rules = R1]

\* a wrong remove_epsilon, to test C21_AugmentedStart against: it never
\* introduces the new start variable
remove_epsilon_same_start(G) ==
    LET nullables == nullables_fix(G.rules, {"&"})
        to_add(var) == OsUnionAll([k \in 1..Len(G.rules[var]) |->
                                      power_set(0, <<G.rules[var][k]>>, nullables)])
    IN [G EXCEPT !.rules = [var \in DOMAIN G.rules |->
                               IF var \in Range(G.variables)
                               THEN OsDiscard(OsUpdate(G.rules[var], to_add(var)), EPS)
                               ELSE G.rules[var]]]

remove_epsilon(G) ==
    LET nullables == nullables_fix(G.rules, {"&"})
        to_add(var) == OsUnionAll([k \in 1..Len(G.rules[var]) |->
                                      power_set(0, <<G.rules[var][k]>>, nullables)])
        R1 == [var \in DOMAIN G.rules |->
                  IF var \in Range(G.variables)
                  THEN OsDiscard(OsUpdate(G.rules[var], to_add(var)), EPS)
                  ELSE G.rules[var]]
        new == augmented_start(G.start)
    IN IF G.start \in nullables
       THEN [variables |-> OsAdd(G.variables, new),
             terminals |-> G.terminals,
             rules     |-> [k \in DOMAIN R1 \cup {new} |->
                               IF k = new THEN <<<<G.start>>, EPS>> ELSE R1[k]],
             start     |-> new]
       ELSE [G EXCEPT !.rules = R1]

(***************************************************************************)
(* remove_unreachables                                                     *)
(***************************************************************************)
\* (A, B) is an edge iff A => alfa and B is in alfa
reach_edges(G) ==
    [head \in Range(G.variables) |->
        OrderedSet(SelectSeq(as_tuple(Flatten(G.rules[head])),
                             LAMBDA symbol : symbol \in Range(G.variables)))]

\* a wrong remove_unreachables, to test C10_Idempotent against: it keeps the
\* variables that occur in some body, reachable from start or not
remove_unreachables_used(G) ==
    LET visited == {G.start} \cup {v \in Range(G.variables) :
                       \E head \in Range(G.variables) : v \in Range(as_tuple(Flatten(G.rules[head])))}
    IN [G EXCEPT !.variables = SelectSeq(G.variables, LAMBDA v : v \in visited),
                 !.rules = [k \in DOMAIN G.rules \ (Range(G.variables) \ visited) |-> G.rules[k]]]

\* a wrong remove_unreachables: it keeps start and the variables in the
\* bodies of start only, one step of the search
remove_unreachables_direct(G) ==
    LET visited == {G.start} \cup {v \in Range(G.variables) :
                       v \in Range(as_tuple(Flatten(G.rules[G.start])))}
    IN [G EXCEPT !.variables = SelectSeq(G.variables, LAMBDA v : v \in visited),
                 !.rules = [k \in DOMAIN G.rules \ (Range(G.variables) \ visited) |-> G.rules[k]]]

remove_unreachables(G) ==
    LET visited == bfs(reach_edges(G), G.start)
    IN [G EXCEPT !.variables = SelectSeq(G.variables, LAMBDA v : v \in visited),
                 !.rules = [k \in DOMAIN G.rules \ (Range(G.variables) \ visited) |-> G.rules[k]]]

\* a dict with key k set to val
Put(f, k, val) == (k :> val) @@ f

(***************************************************************************)
(* has_cycle, remove_unit                                                  *)
(***************************************************************************)
\* add edges between A and B if A => B is a rule in rules
unit_edges(G) ==
    [head \in Range(G.variables) |->
        OrderedSet(as_tuple(Flatten(SelectSeq(G.rules[head],
                LAMBDA body : Len(body) = 1 /\ item(body[1]) \in Range(G.variables)))))]

has_cycle(G) ==
    LET edges == unit_edges(G)
    IN \E var \in Range(G.variables) :
          \E contender \in bfs(edges, var) : <<var>> \in Range(G.rules[contender])

\* remove_unit following one unit production only, not a chain of them
remove_unit_one_step(G) ==
    LET edges == unit_edges(G)
        non_unit(contender) ==
            SelectSeq(G.rules[contender],
                      LAMBDA prod : Len(prod) > 1 \/ item(prod[1]) \notin Range(G.variables))
        closure(var) ==
            LET visited == {var} \cup Range(edges[var])
            IN OsUnionAll([c \in 1..Len(G.variables) |->
                              IF G.variables[c] \in visited THEN non_unit(G.variables[c]) ELSE <<>>])
    IN [G EXCEPT !.rules = [var \in Range(G.variables) |-> closure(var)]]

remove_unit(G) ==
    LET edges == unit_edges(G)
        non_unit(contender) ==
            SelectSeq(G.rules[contender],
                      LAMBDA prod : Len(prod) > 1 \/ item(prod[1]) \notin Range(G.variables))
        closure(var) ==
            LET visited == bfs(edges, var)
            IN OsUnionAll([c \in 1..Len(G.variables) |->
                              IF G.variables[c] \in visited THEN non_unit(G.variables[c]) ELSE <<>>])
    IN [G EXCEPT !.rules = [var \in Range(G.variables) |-> closure(var)]]

(***************************************************************************)
(* remove_unproductives                                                    *)
(***************************************************************************)
RECURSIVE productives_fix(_, _)
productives_fix(R, P) ==
    LET P2 == P \cup {v \in DOMAIN R : \E i \in 1..Len(R[v]) : Range(as_tuple(R[v][i])) \subseteq P}
    IN IF P2 = P THEN P ELSE productives_fix(R, P2)

\* a wrong remove_unproductives, to test C23_ProductivesKept against: it
\* drops the productions but not the variables left without any
remove_unproductives_declared(G) ==
    LET productives == productives_fix(G.rules, Range(G.terminals) \cup {"&"})
        new_rules == [v \in Range(G.variables) |->
                         SelectSeq(G.rules[v],
                                   LAMBDA production : Range(as_tuple(production)) \subseteq productives)]
    IN IF Len(new_rules[G.start]) = 0
       THEN [G EXCEPT !.variables = <<G.start>>,
                      !.rules = [v \in {G.start} |-> <<as_str(G.start)>>]]
       ELSE [G EXCEPT !.rules = new_rules]

remove_unproductives(G) ==
    LET productives == productives_fix(G.rules, Range(G.terminals) \cup {"&"})
        new_rules == [v \in Range(G.variables) |->
                         SelectSeq(G.rules[v],
                                   LAMBDA production : Range(as_tuple(production)) \subseteq productives)]
        to_remove == {v \in Range(G.variables) : Len(new_rules[v]) = 0}
        kept == [v \in DOMAIN new_rules \ to_remove |-> new_rules[v]]
    IN IF G.start \notin DOMAIN kept
       THEN \* if empty language S -> S: the str self.start itself is added as the production
            [G EXCEPT !.variables = <<G.start>>,
                      !.rules = [v \in {G.start} |-> <<as_str(G.start)>>]]
       ELSE [G EXCEPT !.variables = SelectSeq(G.variables, LAMBDA v : v \notin to_remove),
                      !.rules = kept]

(***************************************************************************)
(* has_left_recursion                                                      *)
(***************************************************************************)
first_edges(G) ==
    [v \in Range(G.variables) |->
        OrderedSet(SelectSeq([k \in 1..Len(G.rules[v]) |-> item(G.rules[v][k][1])],
                             LAMBDA u : u \in Range(G.variables)))]

has_left_recursion(G) ==
    LET edges == first_edges(G)
    IN \E v \in Range(G.variables) : \E u \in bfs(edges, v) : v \in Range(edges[u])

(***************************************************************************)
(* remove_left_recursion                                                   *)
(***************************************************************************)
\* the productions of prods that come before the first one marked in bad
before_first(prods, bad) ==
    SubSeq(prods, 1, CHOOSE m \in 0..Len(prods) :
                        /\ \A b \in 1..m : ~bad[b]
                        /\ m = Len(prods) \/ bad[m + 1])

\* "for production in self.rules[variables[i]]" with variables[j] substituted:
\* the loop adds to the ordered set it iterates over, so it also visits what
\* it adds; k is the position reached, to_remove what it marked.  beta + alpha
\* raises TypeError when one is a str and the other a tuple: the loop then
\* stops with what it has added so far.
RECURSIVE substitute(_, _, _, _, _)
substitute(prods_i, k, var_j, prods_j, to_remove) ==
    IF k > Len(prods_i)
    THEN [prods |-> SelectSeq(prods_i, LAMBDA rem : rem \notin to_remove), raised |-> FALSE]
    ELSE LET production == prods_i[k]
             betas == before_first(prods_j, [b \in 1..Len(prods_j) |-> is_str(prods_j[b]) # is_str(production)])
             added == OsUpdate(prods_i, [b \in 1..Len(betas) |-> betas[b] \o Tail(production)])
         IN IF var_j = item(production[1])
            THEN IF Len(betas) < Len(prods_j)
                 THEN [prods |-> added, raised |-> TRUE]
                 ELSE substitute(added, k + 1, var_j, prods_j, to_remove \cup {production})
            ELSE substitute(prods_i, k + 1, var_j, prods_j, to_remove)

\* "for j in range(i)": R is self.rules, V self.variables, i and j count from 1
RECURSIVE remove_indirect(_, _, _, _)
remove_indirect(R, V, i, j) ==
    IF j >= i THEN [R |-> R, raised |-> FALSE]
    ELSE LET sub == substitute(R[V[i]], 1, V[j], R[V[j]], {})
             R2 == [R EXCEPT ![V[i]] = sub.prods]
         IN IF sub.raised THEN [R |-> R2, raised |-> TRUE]
            ELSE remove_indirect(R2, V, i, j + 1)

\* a wrong remove_direct, to test C5_NoLeftRecursionAfter against: it appends
\* the primed variable to every production of variables[i], the recursive ones too
remove_direct_keeping(R, V, i) ==
    LET var == V[i]
        new_var == primed(var)
        direct == \E k \in 1..Len(R[var]) : item(R[var][k][1]) = var
        rec == SelectSeq(R[var], LAMBDA production : item(production[1]) = var)
        new_prods_i == OrderedSet([k \in 1..Len(R[var]) |-> Append(R[var][k], new_var)])
        prods_new == OsAdd(OrderedSet([k \in 1..Len(rec) |-> Append(Tail(rec[k]), new_var)]), EPS)
    IN IF direct
       THEN [V |-> OsAdd(V, new_var), R |-> Put(Put(R, new_var, prods_new), var, new_prods_i),
             raised |-> FALSE]
       ELSE [V |-> V, R |-> R, raised |-> FALSE]

\* the split of variables[i] into itself and its primed variable.  Both
\* production[1:] + (new_var,) and production + (new_var,) raise TypeError on
\* a str production: the primed variable is then already declared, with the
\* productions made from the tuples met before the str, and variables[i]
\* still has its own productions.
remove_direct(R, V, i) ==
    LET var == V[i]
        new_var == primed(var)
        direct == \E k \in 1..Len(R[var]) : item(R[var][k][1]) = var
        met == before_first(R[var], [b \in 1..Len(R[var]) |-> is_str(R[var][b])])
        rec == SelectSeq(met, LAMBDA production : production[1] = var)
        non == SelectSeq(met, LAMBDA production : production[1] # var)
        new_prods_i == OrderedSet([k \in 1..Len(non) |-> Append(non[k], new_var)])
        from_rec == OrderedSet([k \in 1..Len(rec) |-> Append(Tail(rec[k]), new_var)])
    IN IF ~direct THEN [V |-> V, R |-> R, raised |-> FALSE]
       ELSE IF Len(met) < Len(R[var])
       THEN [V |-> OsAdd(V, new_var), R |-> Put(R, new_var, from_rec), raised |-> TRUE]
       ELSE [V |-> OsAdd(V, new_var),
             R |-> Put(Put(R, new_var, OsAdd(from_rec, EPS)), var, new_prods_i),
             raised |-> FALSE]

\* "for i in range(len(self.variables))": n is the length read when the loop starts
RECURSIVE rlr_loop(_, _, _, _)
rlr_loop(R, V, i, n) ==
    IF i > n THEN [V |-> V, R |-> R, raised |-> FALSE]
    ELSE LET ind == remove_indirect(R, V, i, 1)
             d == remove_direct(ind.R, V, i)
         IN IF ind.raised THEN [V |-> V, R |-> ind.R, raised |-> TRUE]
            ELSE IF d.raised THEN d
            ELSE rlr_loop(d.R, d.V, i + 1, n)

\* the grammar the body of remove_left_recursion leaves once its two checks
\* have passed, whether it returns or stops on a TypeError
remove_left_recursion(G) ==
    LET out == rlr_loop(G.rules, G.variables, 1, Len(G.variables))
    IN [G EXCEPT !.variables = out.V, !.rules = out.R]

\* the body of remove_left_recursion stops on a TypeError
rlr_type_error(G) == rlr_loop(G.rules, G.variables, 1, Len(G.variables)).raised

rlr_raises(G) == has_e(G) \/ has_cycle(G)

(***************************************************************************)
(* replace_terminals                                                       *)
(*                                                                         *)
(* st is the state of the call: new_v_id, to_add_var, self.rules (which    *)
(* create_new_v writes to) and new_rules.                                  *)
(***************************************************************************)
NoVar == "None"

\* the first variable, declared or newly created, whose only production is (sym,)
var_to_terminal(sym, V, st) ==
    LET cands == SelectSeq(V \o st.to_add_var,
                           LAMBDA v : Len(st.rules[v]) = 1 /\ st.rules[v][1] = <<sym>>)
    IN IF cands = <<>> THEN NoVar ELSE cands[1]

create_new_v(sym, st) ==
    LET new_v == R_name(st.new_v_id + 1)
    IN [new_v_id   |-> st.new_v_id + 1,
        to_add_var |-> OsAdd(st.to_add_var, new_v),
        rules      |-> Put(st.rules, new_v, <<<<sym>>>>),
        new_rules  |-> Put(st.new_rules, new_v, <<<<sym>>>>)]

\* "for i in range(len(old_prod))", i counted from 1; yields the state and old_prod
RECURSIVE rt_positions(_, _, _, _, _)
rt_positions(old_prod, i, V, T, st) ==
    IF i > Len(old_prod) THEN [st |-> st, prod |-> old_prod]
    ELSE LET symbol == old_prod[i]
         IN IF symbol \in T
            THEN LET found == var_to_terminal(symbol, V, st)
                     st2 == IF found = NoVar THEN create_new_v(symbol, st) ELSE st
                     new_v == IF found = NoVar THEN R_name(st.new_v_id + 1) ELSE found
                 IN rt_positions([j \in 1..Len(old_prod) |->
                                     IF j >= i /\ old_prod[j] = symbol THEN new_v ELSE old_prod[j]],
                                 i + 1, V, T, st2)
            ELSE rt_positions(old_prod, i + 1, V, T, st)

\* "for prod in self.rules[v]": prods is what is left to visit, to_add what was built
RECURSIVE rt_prods(_, _, _, _, _)
rt_prods(prods, to_add, V, T, st) ==
    IF prods = <<>> THEN [st |-> st, to_add |-> to_add]
    ELSE LET old_prod == as_tuple(Head(prods))                \* list(prod)
             r == IF Len(old_prod) >= 2
                  THEN rt_positions(old_prod, 1, V, T, st)
                  ELSE [st |-> st, prod |-> old_prod]
         IN rt_prods(Tail(prods), OsAdd(to_add, r.prod), V, T, r.st)

\* "for v in self.variables", k counted from 1
RECURSIVE rt_vars(_, _, _, _)
rt_vars(k, V, T, st) ==
    IF k > Len(V) THEN st
    ELSE LET r == rt_prods(st.rules[V[k]], <<>>, V, T, st)
         IN rt_vars(k + 1, V, T, [r.st EXCEPT !.new_rules = Put(r.st.new_rules, V[k], r.to_add)])

replace_terminals(G) ==
    LET st == rt_vars(1, G.variables, Range(G.terminals),
                      [new_v_id |-> 0, to_add_var |-> <<>>, rules |-> G.rules, new_rules |-> <<>>])
    IN [G EXCEPT !.rules = st.new_rules,
                 !.variables = OsUpdate(G.variables, st.to_add_var)]

(***************************************************************************)
(* reduce_size                                                             *)
(***************************************************************************)
\* "for i in range(lp - 3, 0, -1)": i is the source's index (prod counts from 0 there)
RECURSIVE rs_chain(_, _, _, _, _)
rs_chain(prod, i, number_v, new_v, st) ==
    IF i <= 0 THEN [st |-> st, new_v |-> new_v]
    ELSE LET next_v == C_name(number_v, st.new_v_id)
         IN rs_chain(prod, i - 1, number_v, next_v,
                     [new_v_id   |-> st.new_v_id + 1,
                      to_add_var |-> OsAdd(st.to_add_var, next_v),
                      new_rules  |-> Put(st.new_rules, next_v, <<<<item(prod[i + 1]), new_v>>>>)])

\* "for prod in self.rules[v]"
RECURSIVE rs_prods(_, _, _, _)
rs_prods(prods, v, number_v, st) ==
    IF prods = <<>> THEN st
    ELSE LET prod == Head(prods)
             lp == Len(prod)
         IN IF lp > 2
            THEN LET new_v == C_name(number_v, st.new_v_id)
                     st1 == [new_v_id   |-> st.new_v_id + 1,
                             to_add_var |-> OsAdd(st.to_add_var, new_v),
                             new_rules  |-> Put(st.new_rules, new_v,
                                                 <<<<item(prod[lp - 1]), item(prod[lp])>>>>)]
                     c == rs_chain(prod, lp - 3, number_v, new_v, st1)
                 IN rs_prods(Tail(prods), v, number_v,
                             [c.st EXCEPT !.new_rules =
                                 Put(c.st.new_rules, v, OsAdd(c.st.new_rules[v],
                                                                <<item(prod[1]), c.new_v>>))])
            ELSE rs_prods(Tail(prods), v, number_v,
                          [st EXCEPT !.new_rules = Put(st.new_rules, v, OsAdd(st.new_rules[v], prod))])

\* "for v in self.variables", k counted from 1, number_v = k - 1
RECURSIVE rs_vars(_, _, _, _)
rs_vars(k, V, R, st) ==
    IF k > Len(V) THEN st
    ELSE rs_vars(k + 1, V, R,
                 rs_prods(R[V[k]], V[k], k - 1,
                          [st EXCEPT !.new_v_id = 0, !.new_rules = Put(st.new_rules, V[k], <<>>)]))

reduce_size(G) ==
    LET st == rs_vars(1, G.variables, G.rules,
                      [new_v_id |-> 0, to_add_var |-> <<>>, new_rules |-> <<>>])
    IN [G EXCEPT !.rules = st.new_rules,
                 !.variables = OsUpdate(G.variables, st.to_add_var)]

(***************************************************************************)
(* convert_to_cnf                                                          *)
(***************************************************************************)
\* a wrong convert_to_cnf, to test C4_CnfShape against: it leaves out
\* replace_terminals
convert_to_cnf_unisolated(G) ==
    reduce_size(remove_unreachables(remove_unproductives(remove_unit(remove_epsilon(G)))))

convert_to_cnf(G) ==
    reduce_size(replace_terminals(remove_unreachables(remove_unproductives(
        remove_unit(remove_epsilon(G))))))

(***************************************************************************)
(* first_var, firsts, first_body                                           *)
(*                                                                         *)
(* F is self.first, R self.rules.  The loops of first_var write self.first *)
(* as they go, so each operator returns the dict it leaves.                *)
(***************************************************************************)
RECURSIVE first_var(_, _, _)
RECURSIVE first_var_symbols(_, _, _, _, _)
RECURSIVE first_var_prods(_, _, _, _)

first_var(F, R, v) == IF Len(F[v]) # 0 THEN F ELSE first_var_prods(F, R, v, 1)

\* "for prod in self.rules[v]", k counted from 1
first_var_prods(F, R, v, k) ==
    IF k > Len(R[v]) THEN F
    ELSE first_var_prods(first_var_symbols(F, R, v, R[v][k], 1), R, v, k + 1)

\* "for p in prod", n counted from 1
first_var_symbols(F, R, v, prod, n) ==
    IF n > Len(prod) THEN F
    ELSE LET p == item(prod[n])
             F1 == first_var(F, R, p)
             F2 == [F1 EXCEPT ![v] = OsUpdate(F1[v], F1[p])]
         IN IF "&" \notin Range(F2[p])
            THEN [F2 EXCEPT ![v] = OsDiscard(F2[v], "&")]
            ELSE first_var_symbols(F2, R, v, prod, n + 1)

\* "for v in self.variables: self.first_var(v)" over V[lo..hi]: the first half
\* of them, then the rest
RECURSIVE first_all(_, _, _, _, _)
first_all(F, R, V, lo, hi) ==
    IF lo > hi THEN F
    ELSE IF lo = hi THEN first_var(F, R, V[lo])
    ELSE LET mid == (lo + hi) \div 2
             F1 == first_all(F, R, V, lo, mid)
         IN IF F1 = F THEN first_all(F, R, V, mid + 1, hi)
            ELSE first_all(F1, R, V, mid + 1, hi)

\* the dict firsts() leaves when the grammar has no left recursion
firsts(G, F) ==
    LET syms == {"&"} \cup Range(G.terminals) \cup Range(G.variables)
        F0 == [x \in DOMAIN F \cup syms |->
                  IF x = "&" THEN <<"&">>
                  ELSE IF x \in Range(G.variables) THEN <<>>
                  ELSE IF x \in Range(G.terminals) THEN <<x>>
                  ELSE F[x]]
    IN first_all(F0, G.rules, G.variables, 1, Len(G.variables))

RECURSIVE first_body_from(_, _, _, _)
first_body_from(F, body, n, total) ==
    IF n > Len(body) THEN total
    ELSE LET to_add == F[body[n]]
             total2 == OsUpdate(total, to_add)
         IN IF "&" \notin Range(to_add)
            THEN OsDiscard(total2, "&")
            ELSE first_body_from(F, body, n + 1, total2)

first_body(F, body) == first_body_from(F, body, 1, <<>>)

(***************************************************************************)
(* left_factoring.  st is what the call has made of the object so far:     *)
(* V is self.variables, R self.rules, F self.first and id new_var_id; err  *)
(* names the exception that stopped it, "" while there is none; msgs is    *)
(* what it has printed, of which the model keeps the message of firsts()   *)
(* and the last one.                                                       *)
(***************************************************************************)
LEFT_RECURSION == "GRAMMAR HAS LEFT RECURSION"
FINISHED(i) == "Finished in " \o ToString(i) \o " step(s)"
Ceiling == 20     \* "for i in range(20)": the passes left_factoring makes at most
MaxWhile == 4     \* rounds of "while(anyV)" followed in one substitute_ndet_var

\* first_body(body) raises KeyError: it reads a symbol that is no key of self.first
first_body_raises(F, body) ==
    \E n \in 1..Len(body) :
        /\ body[n] \notin DOMAIN F
        /\ \A m \in 1..(n - 1) : body[m] \in DOMAIN F /\ "&" \in Range(F[body[m]])

\* the first n of first..last for which at[n] is not "none", or 0
first_at(at, first_n, last) ==
    LET found == {n \in first_n..last : at[n] # "none"}
    IN IF found = {} THEN 0 ELSE CHOOSE n \in found : \A m \in found : n <= m

\* sub_var(prod): the alternatives of prod[0], each followed by prod[1:], and
\* whether adding a str to a tuple raised TypeError
sub_var(R, prod) ==
    LET rest == SubSeq(prod, 2, Len(prod))
        alts == R[item(prod[1])]
        one(prod_var) ==
            IF prod_var = EPS THEN (IF rest = <<>> THEN EPS ELSE rest)
            ELSE prod_var \o rest
    IN [prods |-> OrderedSet([k \in 1..Len(alts) |-> one(alts[k])]),
        err |-> IF \E k \in 1..Len(alts) : alts[k] # EPS /\ is_str(alts[k]) # is_str(prod)
                THEN "TypeError" ELSE ""]

\* one production in a round of "while(anyV)": what it does to to_add
ndet_var_at(st, prod, ndet_term) ==
    IF item(prod[1]) \notin Range(st.V) THEN [sub |-> FALSE, prods |-> <<prod>>, err |-> ""]
    ELSE IF first_body_raises(st.F, as_tuple(prod))
    THEN [sub |-> FALSE, prods |-> <<>>, err |-> "KeyError"]
    ELSE IF ndet_term \notin Range(first_body(st.F, as_tuple(prod)))
    THEN [sub |-> FALSE, prods |-> <<prod>>, err |-> ""]
    ELSE [sub |-> TRUE, prods |-> sub_var(st.R, prod).prods, err |-> sub_var(st.R, prod).err]

\* substitute_ndet_var(ndet_term): round n of "while(anyV)".  A round that
\* raises leaves self.rules[v] as the round before it left it; after
\* MaxWhile rounds that each substituted, the loop is not followed further.
RECURSIVE substitute_ndet_var(_, _, _, _)
substitute_ndet_var(st, v, ndet_term, n) ==
    LET prods == st.R[v]
        each == [k \in 1..Len(prods) |-> ndet_var_at(st, prods[k], ndet_term)]
        bad == first_at([k \in 1..Len(prods) |-> IF each[k].err = "" THEN "none" ELSE "raised"], 1, Len(prods))
        to_add == OsUnionAll([k \in 1..Len(prods) |-> each[k].prods])
        anyV == \E k \in 1..Len(prods) : each[k].sub
    IN IF bad # 0 THEN [st EXCEPT !.err = each[bad].err]
       ELSE IF ~anyV THEN [st EXCEPT !.R = Put(st.R, v, to_add)]
       ELSE IF n >= MaxWhile THEN [st EXCEPT !.err = "hung"]
       ELSE substitute_ndet_var([st EXCEPT !.R = Put(st.R, v, to_add)], v, ndet_term, n + 1)

\* get_largest_common_prefix_2(str1, str2)
get_largest_common_prefix_2(str1, str2) ==
    LET s1 == IF Len(str1) > Len(str2) THEN str2 ELSE str1
        s2 == IF Len(str1) > Len(str2) THEN str1 ELSE str2
        differ == {i \in 1..Len(s1) : item(s1[i]) # item(s2[i])}
    IN IF differ = {} THEN s1
       ELSE SubSeq(s1, 1, (CHOOSE i \in differ : \A j \in differ : i <= j) - 1)

RECURSIVE lcp_over(_, _, _, _)
lcp_over(prods, ndet_term, k, lcp) ==
    IF k > Len(prods) THEN lcp
    ELSE lcp_over(prods, ndet_term, k + 1,
                  IF item(prods[k][1]) = ndet_term
                  THEN get_largest_common_prefix_2(lcp, prods[k]) ELSE lcp)

\* get_largest_common_prefix(): lcp is unbound when no production of v begins
\* with ndet_term
get_largest_common_prefix(prods, ndet_term) ==
    LET begin == first_at([k \in 1..Len(prods) |-> IF item(prods[k][1]) = ndet_term THEN "found" ELSE "none"],
                          1, Len(prods))
    IN IF begin = 0 THEN [lcp |-> <<>>, err |-> "UnboundLocalError"]
       ELSE [lcp |-> lcp_over(prods, ndet_term, 1, prods[begin]), err |-> ""]

\* the name create_new_var_lcp gives its variable
factored(v, id) ==
    "<" \o (IF Len(chars(v)) = 1 THEN v ELSE chars(v)[2]) \o "," \o ToString(id) \o ">"

\* create_new_var_lcp(lcp) without "self.variables.add(new_var)"
create_new_var_lcp_undeclared(st, v, ndet_term, lcp) ==
    LET new_var_id == st.id + 1
        new_var == factored(v, new_var_id)
        R1 == Put(st.R, new_var, <<>>)
        ll == Len(lcp)
        prods == R1[v]
        tail(prod) == IF Len(prod) > ll THEN SubSeq(prod, ll + 1, Len(prod)) ELSE EPS
        begins == SelectSeq(prods, LAMBDA prod : item(prod[1]) = ndet_term)
        others == SelectSeq(prods, LAMBDA prod : item(prod[1]) # ndet_term)
        R2 == Put(R1, new_var, OsUpdate(R1[new_var], [k \in 1..Len(begins) |-> tail(begins[k])]))
        new_rules_old_v == OsUpdate(<<lcp \o <<new_var>>>>, others)
    IN IF is_str(lcp)
       THEN [st EXCEPT !.R = R1, !.id = new_var_id, !.err = "TypeError"]
       ELSE [st EXCEPT !.R = Put(R2, v, new_rules_old_v), !.id = new_var_id]

\* create_new_var_lcp(lcp): the new variable takes what follows lcp in the
\* productions of v that begin with ndet_term; lcp + (new_var,) raises
\* TypeError when lcp is a str, the new variable being already there
create_new_var_lcp(st, v, ndet_term, lcp) ==
    LET new_var_id == st.id + 1
        new_var == factored(v, new_var_id)
        R1 == Put(st.R, new_var, <<>>)
        V1 == OsAdd(st.V, new_var)
        ll == Len(lcp)
        prods == R1[v]
        tail(prod) == IF Len(prod) > ll THEN SubSeq(prod, ll + 1, Len(prod)) ELSE EPS
        begins == SelectSeq(prods, LAMBDA prod : item(prod[1]) = ndet_term)
        others == SelectSeq(prods, LAMBDA prod : item(prod[1]) # ndet_term)
        R2 == Put(R1, new_var, OsUpdate(R1[new_var], [k \in 1..Len(begins) |-> tail(begins[k])]))
        new_rules_old_v == OsUpdate(<<lcp \o <<new_var>>>>, others)
    IN IF is_str(lcp)
       THEN [st EXCEPT !.V = V1, !.R = R1, !.id = new_var_id, !.err = "TypeError"]
       ELSE [st EXCEPT !.V = V1, !.R = Put(R2, v, new_rules_old_v), !.id = new_var_id]

\* first_follow(), at prod[i] (n = i + 1): "none", or "hit" when FIRST of prod[i]
\* holds & and shares a terminal with FIRST of what follows it
first_follow_at(F, prod, n) ==
    LET x == item(prod[n])
        rest == as_tuple(SubSeq(prod, n + 1, Len(prod)))
    IN IF x \notin DOMAIN F \/ first_body_raises(F, rest) THEN "KeyError"
       ELSE IF "&" \in Range(F[x])
               /\ (Range(F[x]) \cap Range(first_body(F, rest))) \ {"&"} # {}
       THEN "hit" ELSE "none"

\* first_follow(): the first production of v with a hit has the alternatives
\* of the variable hit put in its place, at the end of the productions of v
first_follow(st, v) ==
    LET prods == st.R[v]
        at(prod) == first_at([n \in 1..(Len(prod) - 1) |-> first_follow_at(st.F, prod, n)], 1, Len(prod) - 1)
        k == first_at([j \in 1..Len(prods) |-> IF at(prods[j]) = 0 THEN "none" ELSE "found"], 1, Len(prods))
        to_disc == prods[k]
        n == at(to_disc)
        x == item(to_disc[n])
        before == SubSeq(to_disc, 1, n - 1)
        after == SubSeq(to_disc, n + 1, Len(to_disc))
        alts == st.R[x]
        new_rules_old_v ==
            OrderedSet([j \in 1..Len(alts) |->
                IF alts[j] = EPS THEN before \o after ELSE before \o alts[j] \o after])
    IN IF k = 0 THEN [st |-> st, fi_fo |-> FALSE]
       ELSE IF first_follow_at(st.F, to_disc, n) = "KeyError" \/ x \notin DOMAIN st.R
       THEN [st |-> [st EXCEPT !.err = "KeyError"], fi_fo |-> FALSE]
       ELSE IF \E j \in 1..Len(alts) : alts[j] # EPS /\ is_str(alts[j]) # is_str(to_disc)
       THEN [st |-> [st EXCEPT !.err = "TypeError"], fi_fo |-> FALSE]
       ELSE [st |-> [st EXCEPT !.R = Put(st.R, v, OsUpdate(OsDiscard(prods, to_disc),
                                                            new_rules_old_v))],
             fi_fo |-> TRUE]

\* first_first(), choosing ndet_term: the first terminal FIRST of a production
\* of v holds that FIRST of an earlier production of v held, or NoSymbol
RECURSIVE choose_ndet_term(_, _, _, _)
choose_ndet_term(F, prods, k, total) ==
    IF k > Len(prods) THEN NoSymbol
    ELSE LET firsts_v == first_body(F, as_tuple(prods[k]))
             again == SelectSeq(firsts_v, LAMBDA ter : ter # "&" /\ ter \in Range(total))
         IN IF again # <<>> THEN again[1]
            ELSE choose_ndet_term(F, prods, k + 1, OsUpdate(total, firsts_v))

\* first_first(): factors the productions of v that begin with ndet_term
first_first(st, v) ==
    LET prods == st.R[v]
        ndet_term == choose_ndet_term(st.F, prods, 1, <<>>)
        st1 == substitute_ndet_var(st, v, ndet_term, 1)
        found == get_largest_common_prefix(st1.R[v], ndet_term)
    IN IF \E k \in 1..Len(prods) : first_body_raises(st.F, as_tuple(prods[k]))
       THEN [st |-> [st EXCEPT !.err = "KeyError"], fi_fi |-> FALSE]
       ELSE IF ndet_term = NoSymbol THEN [st |-> st, fi_fi |-> FALSE]
       ELSE IF st1.err # "" THEN [st |-> st1, fi_fi |-> FALSE]
       ELSE IF found.err # "" THEN [st |-> [st1 EXCEPT !.err = found.err], fi_fi |-> FALSE]
       ELSE [st |-> create_new_var_lcp(st1, v, ndet_term, found.lcp), fi_fi |-> TRUE]

\* self.firsts() as left_factoring calls it, once for each of the n variables
\* a pass visits: self.first stays as it is when the grammar has left recursion
firsts_again(st, G, n) ==
    LET G1 == [G EXCEPT !.variables = st.V, !.rules = st.R]
    IN IF has_left_recursion(G1)
       THEN [st EXCEPT !.msgs = st.msgs \o [m \in 1..n |-> LEFT_RECURSION]]
       ELSE [st EXCEPT !.F = firsts(G1, st.F)]

\* what the body of "for v in self.variables" does for v once first_first()
\* has run, fi being what it gave
after_first_first(fi) == [st |-> fi.st, anynd |-> fi.st.err = "" /\ fi.fi_fi]

\* the same once first_follow() has run, ff being what it gave: first_first()
\* runs unless first_follow() repaired something or raised
after_first_follow(ff, v) ==
    IF ff.st.err # "" THEN [st |-> ff.st, anynd |-> FALSE]
    ELSE IF ff.fi_fo THEN [st |-> ff.st, anynd |-> TRUE]
    ELSE after_first_first(first_first(ff.st, v))

\* what the body of "for v in self.variables" does for v
factoring_at(st, v) == after_first_follow(first_follow(st, v), v)

\* whether the pass ends at a variable, out being what its turn gave
ends_pass(out) == IF out.anynd \/ out.st.err # "" THEN "break" ELSE "none"

\* the position in V of the first variable at which something is repaired or
\* raised, or 0; the variables before it change nothing
pass_break(st1, V) ==
    first_at([n \in 1..Len(V) |-> ends_pass(factoring_at(st1, V[n]))], 1, Len(V))

\* the pass that ends at the k-th variable, or visits them all when k = 0
pass_ending_at(st, G, k) ==
    IF k = 0 THEN [st |-> firsts_again(st, G, Len(st.V)), anynd |-> FALSE]
    ELSE factoring_at(firsts_again(st, G, k), st.V[k])

\* "for v in self.variables": the pass ends at the first variable at which
\* something is repaired or raised
factoring_pass(st, G) == pass_ending_at(st, G, pass_break(firsts_again(st, G, 0), st.V))

\* what a pass numbered i leaves of the loop "for i in range(20)": returned
\* is what the call returns, "None" when it raised or is not followed
\* further, "" while it goes on
after_pass(pass, i) ==
    IF pass.st.err # "" THEN [st |-> pass.st, returned |-> "None", i |-> i]
    ELSE IF ~pass.anynd
    THEN [st |-> [pass.st EXCEPT !.msgs = Append(pass.st.msgs, FINISHED(i))],
          returned |-> "True", i |-> i]
    ELSE [st |-> pass.st, returned |-> IF i + 1 = Ceiling THEN "False" ELSE "",
          i |-> i + 1]

\* one pass of "for i in range(20)", the pass numbered run.i
one_pass(run, G) == after_pass(factoring_pass(run.st, G), run.i)

\* the next n passes, as long as the call goes on: half of them, then the rest
RECURSIVE factoring_passes(_, _, _)
RECURSIVE passes_on(_, _, _)
factoring_passes(run, G, n) ==
    IF n = 1 THEN one_pass(run, G)
    ELSE passes_on(factoring_passes(run, G, n \div 2), G, n - (n \div 2))

\* n more passes after those that left half, unless the call has returned
passes_on(half, G, n) ==
    IF half.returned # "" THEN half ELSE factoring_passes(half, G, n)

\* left_factoring() on a grammar without left recursion
left_factoring(G, F) ==
    factoring_passes([st |-> [V |-> G.variables, R |-> G.rules, F |-> F, id |-> 0,
                              err |-> "", msgs |-> <<>>],
                      returned |-> "", i |-> 0], G, Ceiling)

(***************************************************************************)
(* follows.  FOL is self.follow; the heads are visited in the order of     *)
(* self.variables, the order in which a loaded grammar's rules were keyed. *)
(***************************************************************************)
\* "for i in range(lb-1)": FIRST of what follows body[n] goes to FOLLOW(body[n])
RECURSIVE follows_suffixes(_, _, _, _, _)
follows_suffixes(G, F, FOL, body, n) ==
    IF n > Len(body) - 1 THEN FOL
    ELSE LET to_add == OsDiscard(first_body(F, SubSeq(body, n + 1, Len(body))), "&")
             FOL2 == IF body[n] \in Range(G.variables)
                     THEN [FOL EXCEPT ![body[n]] = OsUpdate(FOL[body[n]], to_add)]
                     ELSE FOL
         IN follows_suffixes(G, F, FOL2, body, n + 1)

\* "for i in range(lb-1, -1, -1)": FOLLOW(head) goes to the trailing variables;
\* to_add is the very set self.follow[head]
RECURSIVE follows_trailing(_, _, _, _, _, _)
follows_trailing(G, F, FOL, head, body, n) ==
    IF n < 1 THEN FOL
    ELSE IF body[n] \notin Range(G.variables) THEN FOL
    ELSE LET FOL2 == [FOL EXCEPT ![body[n]] = OsUpdate(FOL[body[n]], FOL[head])]
         IN IF "&" \notin Range(F[body[n]]) THEN FOL2
            ELSE follows_trailing(G, F, FOL2, head, body, n - 1)

follows_body(G, F, FOL, head, body) ==
    LET FOL1 == follows_suffixes(G, F, FOL, body, 1)
        FOL2 == [FOL1 EXCEPT ![head] = OsDiscard(FOL1[head], "&")]
    IN follows_trailing(G, F, FOL2, head, body, Len(body))

RECURSIVE follows_bodies(_, _, _, _, _)
follows_bodies(G, F, FOL, head, k) ==
    IF k > Len(G.rules[head]) THEN FOL
    ELSE follows_bodies(G, F, follows_body(G, F, FOL, head, G.rules[head][k]), head, k + 1)

RECURSIVE follows_heads(_, _, _, _)
follows_heads(G, F, FOL, k) ==
    IF k > Len(G.variables) THEN FOL
    ELSE follows_heads(G, F, follows_bodies(G, F, FOL, G.variables[k], 1), k + 1)

\* "while(add)": a pass that adds nothing ends the loop
RECURSIVE follows_loop(_, _, _)
follows_loop(G, F, FOL) ==
    LET FOL2 == follows_heads(G, F, FOL, 1)
    IN IF FOL2 = FOL THEN FOL ELSE follows_loop(G, F, FOL2)

follows(G, F, FOL) ==
    LET FOL0 == [x \in DOMAIN FOL \cup Range(G.variables) |->
                    IF x \in Range(G.variables) THEN <<>> ELSE FOL[x]]
    IN follows_loop(G, F, [FOL0 EXCEPT ![G.start] = OsAdd(FOL0[G.start], "$")])

(***************************************************************************)
(* make_table.                                                             *)
(***************************************************************************)
\* the productions (head, body) in the order their ids are given out, from 1
RECURSIVE ProdList(_, _)
ProdList(G, k) ==
    IF k > Len(G.variables) THEN <<>>
    ELSE LET head == G.variables[k]
         IN [n \in 1..Len(G.rules[head]) |-> <<head, G.rules[head][n]>>] \o ProdList(G, k + 1)

prod_to_id(G, head, body) ==
    CHOOSE id \in 1..Len(ProdList(G, 1)) : ProdList(G, 1)[id] = <<head, body>>

\* the keys of self.table in the order make_table creates them
RECURSIVE TableKeysOf(_, _)
TableKeysOf(G, k) ==
    IF k > Len(G.variables) THEN <<>>
    ELSE [n \in 1..Len(G.terminals) |-> <<G.variables[k], G.terminals[n]>>] \o TableKeysOf(G, k + 1)

TableKeys(G) ==
    TableKeysOf(G, 1) \o [k \in 1..Len(G.variables) |-> <<G.variables[k], "$">>]

NOT_LEFT_FACTORED == "NOT LEFT-FACTORED"

\* st = [table, printed]; one "self.table[(v, f)] = id" per f of fs, with the
\* message printed when the cell is occupied
RECURSIVE make_table_cells(_, _, _, _)
make_table_cells(st, v, id, fs) ==
    IF fs = <<>> THEN st
    ELSE LET f == Head(fs)
             st2 == [table |-> [st.table EXCEPT ![<<v, f>>] = id],
                     printed |-> IF st.table[<<v, f>>] # -1
                                 THEN Append(st.printed, NOT_LEFT_FACTORED)
                                 ELSE st.printed]
         IN make_table_cells(st2, v, id, Tail(fs))

make_table_alpha(G, F, FOL, st, v, alpha) ==
    LET fst == first_body(F, alpha)
        id == prod_to_id(G, v, alpha)
        st1 == make_table_cells(st, v, id, OsDiscard(fst, "&"))
    IN IF "&" \in Range(fst) THEN make_table_cells(st1, v, id, FOL[v]) ELSE st1

RECURSIVE make_table_alphas(_, _, _, _, _, _)
make_table_alphas(G, F, FOL, st, v, k) ==
    IF k > Len(G.rules[v]) THEN st
    ELSE make_table_alphas(G, F, FOL, make_table_alpha(G, F, FOL, st, v, G.rules[v][k]), v, k + 1)

RECURSIVE make_table_vars(_, _, _, _, _)
make_table_vars(G, F, FOL, st, k) ==
    IF k > Len(G.variables) THEN st
    ELSE make_table_vars(G, F, FOL, make_table_alphas(G, F, FOL, st, G.variables[k], 1), k + 1)

\* the table and the messages make_table leaves, T the table before the call
make_table(G, F, FOL, T, msgs) ==
    LET keys == Range(TableKeys(G))
        T0 == [key \in DOMAIN T \cup keys |-> IF key \in keys THEN -1 ELSE T[key]]
    IN make_table_vars(G, F, FOL, [table |-> T0, printed |-> msgs], 1)

(***************************************************************************)
(* make_LL1_parser: the parser's table holds the filled cells of           *)
(* self.table, in the order of its keys, each with its production body.    *)
(***************************************************************************)
make_LL1_table(G, T, ids) ==
    LET keys == SelectSeq(TableKeys(G), LAMBDA key : T[key] # -1)
    IN [keys |-> keys, cell |-> [key \in Range(keys) |-> ids[T[key]][2]]]

\* PredictiveParser.__init__
PredictiveParser(tab) ==
    [variables |-> OrderedSet([n \in 1..Len(tab.keys) |-> tab.keys[n][1]]),
     terminals |-> OrderedSet([n \in 1..Len(tab.keys) |-> tab.keys[n][2]]),
     table |-> tab.cell]

NoParser == [variables |-> <<>>, terminals |-> <<>>, table |-> <<>>]

\* reversed(action) pushed on the stack
RECURSIVE reversed(_)
reversed(action) == IF action = <<>> THEN <<>> ELSE reversed(Tail(action)) \o <<Head(action)>>

(***************************************************************************)
(* The grammars a run starts from: two declared variables, S (the start,   *)
(* declared first) and A, each with at most MaxProds alternatives taken    *)
(* in order from the lists below.                                          *)
(***************************************************************************)
SBodies == << <<"&">>, <<"b">>, <<"S", "a">>, <<"A", "b", "A">>, <<"A">> >>
ABodies == << <<"&">>, <<"a">>, <<"S">>, <<"b", "S">> >>

Choices(bodies) ==
    {SelectSeq(bodies, LAMBDA b : \E i \in I : bodies[i] = b) :
        I \in {J \in SUBSET (1..Len(bodies)) : Cardinality(J) \in 1..MaxProds}}

Loaded ==
    {Load(<<"S", "A">>, [v \in {"S", "A"} |-> IF v = "S" THEN s ELSE a]) :
        s \in Choices(SBodies), a \in Choices(ABodies)}

(***************************************************************************)
(* The state machine of one grammar object.                                *)
(***************************************************************************)
llvars == <<first, follow, table, id_to_prod, printed, parser, string, stack, pos, result, other, other, returned, pc>>

vars == <<variables, terminals, rules, start, hist, pre, raised, llvars>>

\* the locals of an invocation of parse that has not been made
NotCalled == [string |-> <<>>, stack |-> <<>>, pos |-> 0, result |-> "none"]

\* a grammar object just constructed from one of the grammars of pool
Constructed(pool) ==
    /\ \E G \in pool :
          /\ variables = G.variables
          /\ terminals = G.terminals
          /\ rules = G.rules
          /\ start = G.start
          /\ pre = G
    /\ hist = <<>>
    /\ raised = FALSE
    /\ first = <<>>
    /\ follow = <<>>
    /\ table = <<>>
    /\ id_to_prod = <<>>
    /\ printed = <<>>
    /\ parser = NoParser
    /\ string = <<>>
    /\ stack = <<>>
    /\ pos = 0
    /\ result = "none"
    /\ other = NotCalled
    /\ returned = "None"
    /\ pc = "loaded"

Init == Constructed(Loaded)

\* the number of symbols in the productions of G: of places (v, k, n),
\* the n-th symbol of the k-th production of v
GrammarSize(G) ==
    Cardinality(UNION {UNION {{<<v, k, n>> : n \in 1..Len(G.rules[v][k])} :
                                 k \in 1..Len(G.rules[v])} : v \in DOMAIN G.rules})

\* the calls the model makes: at most MaxOps, on grammars of at most MaxSize symbols
MayCall == Len(hist) < MaxOps /\ GrammarSize(Self) <= MaxSize /\ pc # "hung"

\* a call that returns normally, leaving the grammar as G2
Returns(name, G2) ==
    /\ MayCall
    /\ variables' = G2.variables
    /\ terminals' = G2.terminals
    /\ rules' = G2.rules
    /\ start' = G2.start
    /\ hist' = Append(hist, name)
    /\ pre' = Self
    /\ raised' = FALSE
    /\ UNCHANGED llvars

\* the call name stopped on an error raised after it had changed the grammar to G2
Raises(name, G2) ==
    /\ MayCall
    /\ variables' = G2.variables
    /\ terminals' = G2.terminals
    /\ rules' = G2.rules
    /\ start' = G2.start
    /\ hist' = Append(hist, name)
    /\ pre' = Self
    /\ raised' = TRUE
    /\ UNCHANGED llvars

RemoveEpsilon == Returns("remove_epsilon", remove_epsilon(Self))

RemoveUnreachables == Returns("remove_unreachables", remove_unreachables(Self))

RemoveUnit == Returns("remove_unit", remove_unit(Self))

RemoveUnproductives == Returns("remove_unproductives", remove_unproductives(Self))

\* remove_left_recursion: RuntimeError before any change, or the transform
RemoveLeftRecursion ==
    \/ /\ rlr_raises(Self)
       /\ MayCall
       /\ hist' = Append(hist, "remove_left_recursion")
       /\ pre' = Self
       /\ raised' = TRUE
       /\ UNCHANGED <<gvars, llvars>>
    \/ /\ ~rlr_raises(Self)
       /\ rlr_type_error(Self)
       /\ Raises("remove_left_recursion", remove_left_recursion(Self))
    \/ /\ ~rlr_raises(Self)
       /\ ~rlr_type_error(Self)
       /\ Returns("remove_left_recursion", remove_left_recursion(Self))

ReplaceTerminals == Returns("replace_terminals", replace_terminals(Self))

ReduceSize == Returns("reduce_size", reduce_size(Self))

ConvertToCnf == Returns("convert_to_cnf", convert_to_cnf(Self))

Next ==
    \/ RemoveEpsilon
    \/ RemoveUnit
    \/ RemoveUnproductives
    \/ RemoveUnreachables
    \/ RemoveLeftRecursion
    \/ ReplaceTerminals
    \/ ReduceSize
    \/ ConvertToCnf

Spec == Init /\ [][Next]_vars

(***************************************************************************)
(* The transforms together with saving a grammar and loading it again.     *)
(***************************************************************************)
\* save_to_file(f) followed by ContextFreeGrammar(f): the grammar is replaced by
\* the one read back, unless the constructor fails on an assertion
SaveAndLoad ==
    /\ MayCall
    /\ LET G2 == construct(str(Self))
       IN \/ /\ G2.raised
             /\ hist' = Append(hist, "save_and_load")
             /\ pre' = Self
             /\ raised' = TRUE
             /\ UNCHANGED <<gvars, llvars>>
          \/ /\ ~G2.raised
             /\ Returns("save_and_load", [variables |-> G2.variables, terminals |-> G2.terminals,
                                          rules |-> G2.rules, start |-> G2.start])

NextFile == Next \/ SaveAndLoad

SpecFile == Init /\ [][NextFile]_vars

(***************************************************************************)
(* The LL(1) pipeline on one grammar object: firsts(), follows(),          *)
(* make_table(), the parser made from the table, and one parse of one      *)
(* string, a step of the loop of parse at a time.                          *)
(***************************************************************************)
LLSBodies == << <<"a", "A">>, <<"b">>, <<"A", "b">>, <<"A", "S", "b">> >>
LLABodies == << <<"a", "A">>, <<"&">>, <<"S", "a">>, <<"a", "S", "A">> >>

\* the alternatives of a variable: at most MaxProds of bodies, in any order
Orderings(bodies) ==
    {q \in UNION {[1..n -> Range(bodies)] : n \in 1..MaxProds} :
        \A m, n \in DOMAIN q : m # n => q[m] # q[n]}

LoadedLL1 ==
    {Load(<<"S", "A">>, [v \in {"S", "A"} |-> IF v = "S" THEN s ELSE a]) :
        s \in Orderings(LLSBodies), a \in Orderings(LLABodies)}

InitLL1 == Constructed(LoadedLL1)

\* the strings of terminals of length at most MaxWordLen
Words == UNION {[1..n -> Range(terminals)] : n \in 0..MaxWordLen}

\* firsts(): prints and returns False on left recursion, else fills self.first
Firsts ==
    /\ pc = "loaded"
    /\ \/ /\ has_left_recursion(Self)
          /\ printed' = Append(printed, LEFT_RECURSION)
          /\ returned' = "False"
          /\ pc' = "refused"
          /\ UNCHANGED first
       \/ /\ ~has_left_recursion(Self)
          /\ first' = firsts(Self, first)
          /\ returned' = "None"
          /\ pc' = "firsts"
          /\ UNCHANGED printed
    /\ hist' = Append(hist, "firsts")
    /\ pre' = Self
    /\ UNCHANGED <<gvars, raised, follow, table, id_to_prod, parser, string, stack, pos, result, other>>

Follows ==
    /\ pc = "firsts"
    /\ follow' = follows(Self, first, follow)
    /\ pc' = "follows"
    /\ UNCHANGED <<gvars, hist, pre, raised, first, table, id_to_prod, printed, parser, string, stack, pos, result, other, returned>>

MakeTable ==
    /\ pc = "follows"
    /\ LET st == make_table(Self, first, follow, table, printed)
       IN /\ table' = st.table
          /\ printed' = st.printed
    /\ id_to_prod' = ProdList(Self, 1)
    /\ pc' = "table"
    /\ UNCHANGED <<gvars, hist, pre, raised, first, follow, parser, string, stack, pos, result, other, returned>>

MakeLL1Parser ==
    /\ pc = "table"
    /\ parser' = PredictiveParser(make_LL1_table(Self, table, id_to_prod))
    /\ pc' = "parser"
    /\ UNCHANGED <<gvars, hist, pre, raised, first, follow, table, id_to_prod, printed, string, stack, pos, result, other, returned>>

ParseFrame == <<gvars, hist, pre, raised, first, follow, table, id_to_prod, printed, parser, returned, other>>

\* parse(w) up to the loop: IndexError when the table has no key at all
Parse ==
    /\ pc = "parser"
    /\ \E w \in Words :
          /\ string' = w \o <<"$">>
          /\ IF parser.variables = <<>>
             THEN /\ result' = "error"
                  /\ pc' = "done"
                  /\ UNCHANGED <<stack, pos>>
             ELSE /\ stack' = <<"$", parser.variables[1]>>
                  /\ pos' = 0
                  /\ result' = "running"
                  /\ pc' = "parse"
    /\ UNCHANGED ParseFrame

\* stack[-1] == s and s == "$": assert len(stack) == 1, return True
ParseAccept ==
    /\ pc = "parse"
    /\ stack[Len(stack)] = string[pos + 1]
    /\ string[pos + 1] = "$"
    /\ result' = IF Len(stack) = 1 THEN "accept" ELSE "AssertionError"
    /\ pc' = "done"
    /\ UNCHANGED <<ParseFrame, string, stack, pos>>

\* stack[-1] == s and s is not "$": continue, with neither the pop nor i += 1
ParseShift_unread ==
    /\ pc = "parse"
    /\ stack[Len(stack)] = string[pos + 1]
    /\ string[pos + 1] # "$"
    /\ UNCHANGED <<stack, pos>>
    /\ UNCHANGED <<ParseFrame, string, result, pc>>

\* stack[-1] == s: pop, i += 1, the end marker "$" too
ParseShift_eof ==
    /\ pc = "parse"
    /\ stack[Len(stack)] = string[pos + 1]
    /\ stack' = SubSeq(stack, 1, Len(stack) - 1)
    /\ pos' = pos + 1
    /\ UNCHANGED <<ParseFrame, string, result, pc>>

\* stack[-1] == s and s is not "$": pop, i += 1
ParseShift ==
    /\ pc = "parse"
    /\ stack[Len(stack)] = string[pos + 1]
    /\ string[pos + 1] # "$"
    /\ stack' = SubSeq(stack, 1, Len(stack) - 1)
    /\ pos' = pos + 1
    /\ UNCHANGED <<ParseFrame, string, result, pc>>

\* no action from (stack[-1], s): return False
ParseReject ==
    /\ pc = "parse"
    /\ stack[Len(stack)] # string[pos + 1]
    /\ <<stack[Len(stack)], string[pos + 1]>> \notin DOMAIN parser.table
    /\ result' = "reject"
    /\ pc' = "done"
    /\ UNCHANGED <<ParseFrame, string, stack, pos>>

\* expand the variable on top of the stack (followed while the stack is no
\* higher than MaxStack symbols for each symbol of the input looked at)
ParseExpand ==
    /\ pc = "parse"
    /\ Len(stack) <= MaxStack * (pos + 1)
    /\ stack[Len(stack)] # string[pos + 1]
    /\ <<stack[Len(stack)], string[pos + 1]>> \in DOMAIN parser.table
    /\ LET action == parser.table[<<stack[Len(stack)], string[pos + 1]>>]
           popped == SubSeq(stack, 1, Len(stack) - 1)
       IN stack' = IF action # EPS THEN popped \o reversed(action) ELSE popped
    /\ UNCHANGED <<ParseFrame, string, pos, result, pc>>

NextLL1 ==
    \/ Firsts
    \/ Follows
    \/ MakeTable
    \/ MakeLL1Parser
    \/ Parse
    \/ ParseAccept
    \/ ParseShift
    \/ ParseReject
    \/ ParseExpand

SpecLL1 == InitLL1 /\ [][NextLL1]_vars

(***************************************************************************)
(* One parse followed to its end: the loop of parse keeps taking steps,    *)
(* on grammars with and without left recursion and conflicts.              *)
(***************************************************************************)
ParseSAlts ==
    { << <<"a", "A">>, <<"b">> >>, << <<"A", "S", "b">> >>, << <<"A", "b">> >>,
      << <<"A", "S", "b">>, <<"b">> >> }
ParseAAlts ==
    { << <<"a", "S", "A">>, <<"&">> >>, << <<"&">> >>, << <<"a", "S", "A">> >>,
      << <<"S", "a">> >>, << <<"a", "A">>, <<"&">> >> }

LoadedParse ==
    {Load(<<"S", "A">>, [v \in {"S", "A"} |-> IF v = "S" THEN s ELSE a]) :
        s \in ParseSAlts, a \in ParseAAlts}

InitParse == Constructed(LoadedParse)

\* one turn of "while i < len(string)"
ParseStep == ParseAccept \/ ParseShift \/ ParseReject \/ ParseExpand

\* word(w) up to the loop: the grammar's own recogniser, on self.table
WordCall ==
    /\ pc = "table"
    /\ \E w \in Words :
          /\ string' = w \o <<"$">>
          /\ stack' = <<"$", start>>
          /\ pos' = 0
          /\ result' = "running"
          /\ pc' = "word"
    /\ UNCHANGED ParseFrame

\* stack[-1] is w[head] and w[head] is "$": return True
WordAccept ==
    /\ pc = "word"
    /\ stack[Len(stack)] \in Range(terminals) \cup {"$"}
    /\ stack[Len(stack)] = string[pos + 1]
    /\ string[pos + 1] = "$"
    /\ result' = "accept"
    /\ pc' = "done"
    /\ UNCHANGED <<ParseFrame, string, stack, pos>>

\* stack[-1] is w[head], a terminal: pop, head += 1
WordShift ==
    /\ pc = "word"
    /\ stack[Len(stack)] \in Range(terminals) \cup {"$"}
    /\ stack[Len(stack)] = string[pos + 1]
    /\ string[pos + 1] # "$"
    /\ stack' = SubSeq(stack, 1, Len(stack) - 1)
    /\ pos' = pos + 1
    /\ UNCHANGED <<ParseFrame, string, result, pc>>

\* a terminal or "$" on top that is not w[head], or a cell holding -1: return False
WordReject ==
    /\ pc = "word"
    /\ \/ /\ stack[Len(stack)] \in Range(terminals) \cup {"$"}
          /\ stack[Len(stack)] # string[pos + 1]
       \/ /\ stack[Len(stack)] \notin Range(terminals) \cup {"$"}
          /\ table[<<stack[Len(stack)], string[pos + 1]>>] = -1
    /\ result' = "reject"
    /\ pc' = "done"
    /\ UNCHANGED <<ParseFrame, string, stack, pos>>

\* a variable on top with a production in its cell: pop it, push the body
\* reversed unless it is ("&",)
WordExpand ==
    /\ pc = "word"
    /\ Len(stack) <= MaxStack * (pos + 1)
    /\ stack[Len(stack)] \notin Range(terminals) \cup {"$"}
    /\ table[<<stack[Len(stack)], string[pos + 1]>>] # -1
    /\ LET prod == id_to_prod[table[<<stack[Len(stack)], string[pos + 1]>>]][2]
           popped == SubSeq(stack, 1, Len(stack) - 1)
       IN stack' = IF prod = EPS THEN popped ELSE popped \o reversed(prod)
    /\ UNCHANGED <<ParseFrame, string, pos, result, pc>>

\* one turn of "while(True)"
WordStep == WordAccept \/ WordShift \/ WordReject \/ WordExpand

NextParse == NextLL1 \/ WordCall \/ WordAccept \/ WordShift \/ WordReject \/ WordExpand

SpecParse == InitParse /\ [][NextParse]_vars /\ WF_vars(ParseStep) /\ WF_vars(WordStep)

(***************************************************************************)
(* The transforms on grammars loaded from files that already use names of  *)
(* the kind the transforms make (the program writes such files itself):    *)
(* an augmented start, a primed variable, a chain variable.                *)
(***************************************************************************)
LoadedNames ==
    { Load(<<"<'S>", "S">>, ("<'S>" :> << <<"S">> >>) @@ ("S" :> << <<"S", "a">> >>)),
      Load(<<"S", "<S'>">>, ("S" :> << <<"S", "a">>, <<"<S'>">> >>) @@ ("<S'>" :> << <<"b">> >>)),
      Load(<<"S", "<C(0,0)>">>,
           ("S" :> << <<"a", "b", "<C(0,0)>">> >>) @@ ("<C(0,0)>" :> << <<"b">> >>)),
      Load(<<"S", "A">>, ("S" :> << <<"S", "a">> >>) @@ ("A" :> << <<"&">>, <<"a">> >>)),
      Load(<<"S", "A">>, ("S" :> << <<"S", "a">>, <<"a", "b", "A">> >>) @@ ("A" :> << <<"a">> >>)) }

InitNames == Constructed(LoadedNames)

SpecNames == InitNames /\ [][Next]_vars

(***************************************************************************)
(* The LL(1) pipeline on a grammar object on which remove_epsilon() may    *)
(* have been called first: the start is then the augmented start, which    *)
(* remove_epsilon declares last.                                           *)
(***************************************************************************)
EpsSAlts == { << <<"A">> >>, << <<"A", "b">> >>, << <<"a", "A">>, <<"b">> >>, << <<"a", "S">>, <<"&">> >> }
EpsAAlts == { << <<"a">>, <<"&">> >>, << <<"a", "A">>, <<"&">> >>, << <<"b">> >> }

LoadedEps ==
    {Load(<<"S", "A">>, [v \in {"S", "A"} |-> IF v = "S" THEN s ELSE a]) :
        s \in EpsSAlts, a \in EpsAAlts}

InitEps == Constructed(LoadedEps)

\* remove_epsilon() called on the grammar as loaded
RemoveEpsilonFirst ==
    /\ pc = "loaded"
    /\ hist = <<>>
    /\ RemoveEpsilon

NextEps == RemoveEpsilonFirst \/ NextLL1

SpecEps == InitEps /\ [][NextEps]_vars

(***************************************************************************)
(* Two invocations of parse on one parser, their turns of the loop taken   *)
(* in any order.  The first keeps its locals in string, stack, pos and     *)
(* result, the second in other.                                            *)
(***************************************************************************)
TwoSAlts == { << <<"a", "A">>, <<"b">> >>, << <<"A", "b">> >> }
TwoAAlts == { << <<"a", "S", "A">>, <<"&">> >>, << <<"&">>, <<"a", "A">> >> }

LoadedTwo ==
    {Load(<<"S", "A">>, [v \in {"S", "A"} |-> IF v = "S" THEN s ELSE a]) :
        s \in TwoSAlts, a \in TwoAAlts}

InitTwo == Constructed(LoadedTwo)

\* the frame of a turn of the second invocation
OtherFrame == <<gvars, hist, pre, raised, first, follow, table, id_to_prod, printed, parser, returned,
                string, stack, pos, result, pc>>

\* parse(w), a second time, up to the loop
OtherParse ==
    /\ pc \in {"parser", "parse", "done"}
    /\ other.result = "none"
    /\ \E w \in Words :
          other' = IF parser.variables = <<>>
                   THEN [other EXCEPT !.string = w \o <<"$">>, !.result = "error"]
                   ELSE [string |-> w \o <<"$">>, stack |-> <<"$", parser.variables[1]>>,
                         pos |-> 0, result |-> "running"]
    /\ UNCHANGED OtherFrame

\* stack[-1] == s and s == "$": assert len(stack) == 1, return True
OtherAccept ==
    /\ other.result = "running"
    /\ other.stack[Len(other.stack)] = other.string[other.pos + 1]
    /\ other.string[other.pos + 1] = "$"
    /\ other' = [other EXCEPT !.result = IF Len(other.stack) = 1 THEN "accept" ELSE "AssertionError"]
    /\ UNCHANGED OtherFrame

\* stack[-1] == s and s is not "$": pop, i += 1, on the locals of the first invocation
OtherShift_shared ==
    /\ other.result = "running"
    /\ other.stack[Len(other.stack)] = other.string[other.pos + 1]
    /\ other.string[other.pos + 1] # "$"
    /\ other' = [other EXCEPT !.stack = SubSeq(other.stack, 1, Len(other.stack) - 1),
                              !.pos = other.pos + 1]
    /\ pos' = IF pc = "parse" /\ pos + 2 <= Len(string) THEN pos + 1 ELSE pos
    /\ UNCHANGED <<gvars, hist, pre, raised, first, follow, table, id_to_prod, printed, parser, returned,
                   string, stack, result, pc>>

\* stack[-1] == s and s is not "$": pop, i += 1
OtherShift ==
    /\ other.result = "running"
    /\ other.stack[Len(other.stack)] = other.string[other.pos + 1]
    /\ other.string[other.pos + 1] # "$"
    /\ other' = [other EXCEPT !.stack = SubSeq(other.stack, 1, Len(other.stack) - 1),
                              !.pos = other.pos + 1]
    /\ UNCHANGED OtherFrame

\* no action from (stack[-1], s): return False
OtherReject ==
    /\ other.result = "running"
    /\ other.stack[Len(other.stack)] # other.string[other.pos + 1]
    /\ <<other.stack[Len(other.stack)], other.string[other.pos + 1]>> \notin DOMAIN parser.table
    /\ other' = [other EXCEPT !.result = "reject"]
    /\ UNCHANGED OtherFrame

\* expand the variable on top of the stack
OtherExpand ==
    /\ other.result = "running"
    /\ Len(other.stack) <= MaxStack * (other.pos + 1)
    /\ other.stack[Len(other.stack)] # other.string[other.pos + 1]
    /\ <<other.stack[Len(other.stack)], other.string[other.pos + 1]>> \in DOMAIN parser.table
    /\ LET action == parser.table[<<other.stack[Len(other.stack)], other.string[other.pos + 1]>>]
           popped == SubSeq(other.stack, 1, Len(other.stack) - 1)
       IN other' = [other EXCEPT !.stack = IF action # EPS THEN popped \o reversed(action) ELSE popped]
    /\ UNCHANGED OtherFrame

NextTwo == NextLL1 \/ OtherParse \/ OtherAccept \/ OtherShift \/ OtherReject \/ OtherExpand

SpecTwo == InitTwo /\ [][NextTwo]_vars

(***************************************************************************)
(* The transforms together with left_factoring() and firsts(), on grammars *)
(* some of which have left recursion, plain or behind a nullable variable. *)
(***************************************************************************)
FSBodies == << <<"S", "a">>, <<"b">>, <<"A", "S", "b">>, <<"a", "A">>, <<"a", "b">> >>
FABodies == << <<"&">>, <<"a">> >>

LoadedFactor ==
    {Load(<<"S", "A">>, [v \in {"S", "A"} |-> IF v = "S" THEN s ELSE a]) :
        s \in Choices(FSBodies), a \in Choices(FABodies)}

InitFactor == Constructed(LoadedFactor)

\* what a call of left_factoring that got past has_left_recursion() leaves,
\* out being what its passes gave
LeftFactoringEnds(out) ==
    \/ /\ out.st.err = "hung"
       /\ pc' = "hung"
       /\ returned' = "None"
       /\ raised' = FALSE
       /\ UNCHANGED <<gvars, first, printed>>
    \/ /\ out.st.err # "hung"
       /\ variables' = out.st.V
       /\ rules' = out.st.R
       /\ first' = out.st.F
       /\ printed' = printed \o out.st.msgs
       /\ returned' = out.returned
       /\ raised' = (out.st.err # "")
       /\ UNCHANGED <<terminals, start, pc>>

\* left_factoring(): refused on left recursion like firsts(); otherwise the
\* passes, which return True or False, raise, or are not followed to an end
LeftFactoring ==
    /\ MayCall
    /\ hist' = Append(hist, "left_factoring")
    /\ pre' = Self
    /\ \/ /\ has_left_recursion(Self)
          /\ printed' = Append(printed, LEFT_RECURSION)
          /\ returned' = "False"
          /\ raised' = FALSE
          /\ UNCHANGED <<gvars, first, pc>>
       \/ /\ ~has_left_recursion(Self)
          /\ LeftFactoringEnds(left_factoring(Self, first))
    /\ UNCHANGED <<follow, table, id_to_prod, parser, string, stack, pos, result, other>>

NextFactor == Next \/ LeftFactoring \/ Firsts

SpecFactor == InitFactor /\ [][NextFactor]_vars

(***************************************************************************)
(* What the claims speak of: derivability, validity of a grammar, the      *)
(* last call.                                                              *)
(***************************************************************************)
\* the terminal strings of length at most MaxWordLen
Cat(X, Y) == {w \in {x \o y : x \in X, y \in Y} : Len(w) <= MaxWordLen}

\* the strings a body derives when each variable v derives L[v]; the body
\* ("&",) is the empty right-hand side, and a symbol that is neither a declared
\* variable nor a terminal derives nothing
RECURSIVE BodyLang(_, _, _)
BodyLang(body, L, G) ==
    IF body = <<>> THEN {<<>>}
    ELSE LET x == Head(body)
             X == IF x \in DOMAIN L THEN L[x]
                  ELSE IF x \in Range(G.terminals) THEN {<<x>>} ELSE {}
         IN Cat(X, BodyLang(Tail(body), L, G))

RECURSIVE LangFix(_, _)
LangFix(G, L) ==
    LET L2 == [v \in DOMAIN L |->
                  UNION {IF G.rules[v][k] = EPS THEN {<<>>} ELSE BodyLang(as_tuple(G.rules[v][k]), L, G) :
                            k \in 1..Len(G.rules[v])}]
    IN IF L2 = L THEN L ELSE LangFix(G, L2)

\* Derives(G)[v]: the terminal strings, up to MaxWordLen, derivable from v
Derives(G) == LangFix(G, [v \in Range(G.variables) \cap DOMAIN G.rules |-> {}])

Language(G) == IF G.start \in DOMAIN Derives(G) THEN Derives(G)[G.start] ELSE {}

\* the invariants of a grammar: declared symbols only, well-formed productions
Valid(G) ==
    /\ Len(G.variables) > 0
    /\ G.start \in Range(G.variables)
    /\ DOMAIN G.rules = Range(G.variables)
    /\ Range(G.variables) \cap Range(G.terminals) = {}
    /\ "&" \notin Range(G.terminals)
    /\ \A v \in DOMAIN G.rules : \A k \in 1..Len(G.rules[v]) :
          LET prod == as_tuple(G.rules[v][k])
          IN \/ prod = EPS
             \/ /\ Len(prod) > 0
                /\ Range(prod) \subseteq Range(G.variables) \cup Range(G.terminals)

\* the productions of v, each as the tuple of its symbols
Prods(G, v) == {as_tuple(prod) : prod \in Range(G.rules[v])}

SameGrammar(G, H) ==
    /\ Range(G.variables) = Range(H.variables)
    /\ G.start = H.start
    /\ DOMAIN G.rules = DOMAIN H.rules
    /\ \A v \in DOMAIN G.rules : Prods(G, v) = Prods(H, v)

\* the last call was name and returned normally
Did(name) == hist # <<>> /\ hist[Len(hist)] = name /\ ~raised

\* the last two calls were both name and returned normally
DidTwice(name) == Len(hist) >= 2 /\ hist[Len(hist) - 1] = name /\ Did(name)

(***************************************************************************)
(* Claims.                                                                 *)
(***************************************************************************)
\* x derives the empty string
Nullable(G, x) == x = "&" \/ (x \in DOMAIN Derives(G) /\ <<>> \in Derives(G)[x])

\* the string parse was called on
Word == SubSeq(string, 1, Len(string) - 1)

\* make_table has run, and met no occupied cell
TableBuilt == pc \in {"table", "parser", "parse", "done"}
ConflictFree == NOT_LEFT_FACTORED \notin Range(printed)

\* FIRST and FOLLOW as the least fixed points of their defining rules
SeqNullable(G, alpha) == \A n \in 1..Len(alpha) : Nullable(G, alpha[n])

SeqFirst(G, FS, alpha) ==
    {t \in Range(G.terminals) :
        \E n \in 1..Len(alpha) :
            /\ SeqNullable(G, SubSeq(alpha, 1, n - 1))
            /\ \/ alpha[n] = t
               \/ alpha[n] \in DOMAIN FS /\ t \in FS[alpha[n]]}

RECURSIVE FirstFix(_, _)
FirstFix(G, FS) ==
    LET FS2 == [v \in DOMAIN FS |-> UNION {SeqFirst(G, FS, prod) : prod \in Prods(G, v)}]
    IN IF FS2 = FS THEN FS ELSE FirstFix(G, FS2)

FIRST(G, alpha) == SeqFirst(G, FirstFix(G, [v \in Range(G.variables) |-> {}]), alpha)

RECURSIVE FollowFix(_, _)
FollowFix(G, FO) ==
    LET FO2 == [B \in DOMAIN FO |->
                   (IF B = G.start THEN {"$"} ELSE {})
                   \cup UNION {UNION {UNION {
                           IF prod[n] # B THEN {}
                           ELSE LET beta == SubSeq(prod, n + 1, Len(prod))
                                IN FIRST(G, beta) \cup (IF SeqNullable(G, beta) THEN FO[A] ELSE {}) :
                           n \in 1..Len(prod)} : prod \in Prods(G, A)} : A \in DOMAIN FO}]
    IN IF FO2 = FO THEN FO ELSE FollowFix(G, FO2)

FOLLOW(G) == FollowFix(G, [v \in Range(G.variables) |-> {}])

\* C1: when the table was built without conflict, parse(w) returns accept if w
\* is derivable from the start variable of the grammar and reject if it is not,
\* for every string w of at most MaxWordLen terminals.
C1_ParserDecidesLanguage ==
    (pc = "done" /\ ConflictFree) =>
        /\ result \in {"accept", "reject"}
        /\ result = "accept" <=> Word \in Language(Self)

\* C2: when make_table meets an occupied cell the construction fails with an
\* error and leaves no table; it never overwrites the cell.
C2_ConflictFails ==
    (TableBuilt /\ ~ConflictFree) =>
        /\ raised
        /\ \A key \in DOMAIN table : table[key] = -1

\* C3: after firsts, follows and make_table on a grammar without left recursion
\* and without conflict, the cell (v, t) holds the id of production alpha of v
\* iff t is in FIRST(alpha) minus epsilon, or epsilon is in FIRST(alpha) and t is
\* in FOLLOW(v); every other cell holds -1.
Claims(G, v, alpha, t) ==
    \/ t \in FIRST(G, alpha)
    \/ SeqNullable(G, alpha) /\ t \in FOLLOW(G)[v]

C3_TableFromFirstFollow ==
    (TableBuilt /\ ConflictFree) =>
        \A v \in Range(variables) : \A t \in Range(terminals) \cup {"$"} :
            /\ \A alpha \in Prods(Self, v) :
                  table[<<v, t>>] = prod_to_id(Self, v, alpha) <=> Claims(Self, v, alpha, t)
            /\ table[<<v, t>>] = -1 <=> ~\E alpha \in Prods(Self, v) : Claims(Self, v, alpha, t)

\* C4: every production of convert_to_cnf(G), G valid, is a single terminal, or
\* exactly two variables, or the epsilon production of the start variable.
CnfShape(G) ==
    \A v \in DOMAIN G.rules : \A prod \in Prods(G, v) :
        \/ Len(prod) = 1 /\ prod[1] \in Range(G.terminals)
        \/ Len(prod) = 2 /\ prod[1] \in Range(G.variables) /\ prod[2] \in Range(G.variables)
        \/ prod = EPS /\ v = G.start

RECURSIVE ProductiveClosure(_, _)
ProductiveClosure(G, P) ==
    LET P2 == {v \in DOMAIN G.rules :
                  \E prod \in Prods(G, v) :
                      Range(prod) \subseteq P \cup Range(G.terminals) \cup {"&"}}
    IN IF P2 = P THEN P ELSE ProductiveClosure(G, P2)

Productive(G) == G.start \in ProductiveClosure(G, {})

FirstSymbolReach(G, S) ==
    {v \in Range(G.variables) :
        \E u \in S : \E prod \in Prods(G, u) : Len(prod) > 0 /\ prod[1] = v}

RECURSIVE FirstSymbolClosure(_, _)
FirstSymbolClosure(G, S) ==
    LET S2 == S \cup FirstSymbolReach(G, S)
    IN IF S2 = S THEN S ELSE FirstSymbolClosure(G, S2)

LeftRecursive(G) ==
    \E v \in Range(G.variables) : v \in FirstSymbolClosure(G, FirstSymbolReach(G, {v}))

C6_LanguagePreserved ==
    (Did("remove_left_recursion") /\ Valid(pre)) => Language(Self) = Language(pre)

\* C7: after remove_epsilon no variable other than the start variable has the
\* epsilon production, and has_e() returns false.
C7_EpsilonFree ==
    (Did("remove_epsilon") /\ Valid(pre)) =>
        /\ \A v \in DOMAIN rules : v # start => EPS \notin Prods(Self, v)
        /\ ~has_e(Self)

C7_Witness ==
    /\ Did("remove_epsilon") /\ Valid(pre)
    /\ has_e(pre)
    /\ start # pre.start

\* C8: remove_epsilon applied to the result of remove_epsilon changes nothing.
C8_Idempotent == (DidTwice("remove_epsilon") /\ Valid(pre)) => SameGrammar(Self, pre)

\* C9: after remove_epsilon the productions of every variable v are exactly the
\* non-empty sequences got from each former production of v by striking out any
\* subset of the occurrences of nullable symbols, the epsilon production removed.

Struck(prod, D) ==
    LET keep == {i \in 1..Len(prod) : i \notin D}
        idx(n) == CHOOSE i \in keep : Cardinality({j \in keep : j < i}) = n - 1
    IN [n \in 1..Cardinality(keep) |-> prod[idx(n)]]

Cuts(G, v) ==
    {c \in UNION {{Struck(prod, D) : D \in SUBSET {i \in 1..Len(prod) : Nullable(G, prod[i])}} :
                     prod \in Prods(G, v)} :
        c # <<>> /\ c # EPS}

C10_Idempotent ==
    Did("remove_unreachables") => SameGrammar(remove_unreachables(Self), Self)

C10_Witness ==
    /\ Did("remove_unreachables")
    /\ Len(variables) < Len(pre.variables)
    /\ Len(variables) > 1

\* the last call was name, whether it returned or raised
Called(name) == hist # <<>> /\ hist[Len(hist)] = name

\* C11: rendering a grammar reached by transforms to its text and constructing
\* a grammar from that text gives the same start, variables, terminals and,
\* for every variable, the same set of productions.
C11_RoundTrip ==
    Called("save_and_load") =>
        /\ ~raised
        /\ SameGrammar(Self, pre)
        /\ Range(terminals) = Range(pre.terminals)

\* a production of one symbol that is a variable
IsUnit(G, prod) == Len(prod) = 1 /\ prod[1] \in Range(G.variables)

NonUnit(G, v) == {prod \in Prods(G, v) : ~IsUnit(G, prod)}

UnitStep(G, V) == V \cup {prod[1] : prod \in {q \in UNION {Prods(G, c) : c \in V} : IsUnit(G, q)}}

RECURSIVE UnitClosure(_, _)
UnitClosure(G, V) == IF UnitStep(G, V) = V THEN V ELSE UnitClosure(G, UnitStep(G, V))

\* the variables v reaches through unit productions, v included
UnitReach(G, v) == UnitClosure(G, {v})

\* v is on a cycle of unit productions whose variables have no other production
OnBareUnitCycle(G, v) ==
    /\ \E c \in UnitReach(G, v) : <<v>> \in Prods(G, c)
    /\ \A c \in UnitReach(G, v) : NonUnit(G, c) = {}

\* C12: after remove_unit every variable has exactly the non-unit productions
\* of the variables it reached through unit productions; so no unit production
\* remains, has_cycle is false, and the variables of a unit cycle without other
\* productions have no production left.
C12_UnitClosure ==
    Did("remove_unit") =>
        /\ variables = pre.variables /\ start = pre.start
        /\ DOMAIN rules = Range(pre.variables)
        /\ \A v \in Range(pre.variables) :
              /\ Prods(Self, v) = UNION {NonUnit(pre, c) : c \in UnitReach(pre, v)}
              /\ \A prod \in Prods(Self, v) : ~IsUnit(Self, prod)
              /\ OnBareUnitCycle(pre, v) => rules[v] = <<>>
        /\ ~has_cycle(Self)

\* a call that gave a variable a production of a variable two unit steps away
C12_Witness ==
    /\ Did("remove_unit")
    /\ \E v \in Range(pre.variables) :
          \E prod \in Prods(Self, v) :
             \A c \in {v} \cup {q[1] : q \in {q \in Prods(pre, v) : IsUnit(pre, q)}} :
                prod \notin Prods(pre, c)

\* the variables that can begin a string derived in one step from a variable of S
LeftCorners(G, S) ==
    {v \in Range(G.variables) :
        \E u \in S : \E prod \in Prods(G, u) : \E n \in 1..Len(prod) :
            prod[n] = v /\ SeqNullable(G, SubSeq(prod, 1, n - 1))}

RECURSIVE LeftCornerClosure(_, _)
LeftCornerClosure(G, S) ==
    LET S2 == S \cup LeftCorners(G, S)
    IN IF S2 = S THEN S ELSE LeftCornerClosure(G, S2)

\* some variable derives a string beginning with itself
BeginsWithItself(G) ==
    \E v \in Range(G.variables) : v \in LeftCornerClosure(G, LeftCorners(G, {v}))

\* FIRST of a symbol, epsilon included iff the symbol derives the empty string
FirstOf(G, x) == FIRST(G, <<x>>) \cup (IF Nullable(G, x) THEN {"&"} ELSE {})

\* C13: on a grammar without left recursion, whatever the order of the
\* alternatives, firsts() leaves FIRST(t) = {t} for every terminal and for
\* epsilon, and for every variable v the terminals that can begin a string
\* derived from v, with epsilon iff v derives the empty string.
C13_FirstSets ==
    (pc = "firsts" /\ ~BeginsWithItself(Self)) =>
        /\ \A t \in Range(terminals) \cup {"&"} : Range(first[t]) = {t}
        /\ \A v \in Range(variables) : Range(first[v]) = FirstOf(Self, v)

\* firsts() left the FIRST sets of the definition
FirstRight == \A v \in Range(variables) : Range(first[v]) = FirstOf(Self, v)

\* C14: on a grammar without left recursion, after firsts() and follows(),
\* FOLLOW(start) contains $, no FOLLOW set contains epsilon, and FOLLOW(A) is
\* the least fixed point of the two FOLLOW rules for every variable A.
C14_FollowSets ==
    (pc = "follows" /\ ~BeginsWithItself(Self)) =>
        /\ "$" \in Range(follow[start])
        /\ \A A \in Range(variables) :
              /\ "&" \notin Range(follow[A])
              /\ Range(follow[A]) = FOLLOW(Self)[A]

\* some variable other than start has the production epsilon
NonStartEpsilon(G) == \E v \in Range(G.variables) \ {G.start} : EPS \in Prods(G, v)

\* some variable reaches itself through unit productions
UnitCycle(G) ==
    \E v \in Range(G.variables) : \E c \in UnitReach(G, v) : <<v>> \in Prods(G, c)

\* C15: remove_left_recursion called on a grammar in which a variable other
\* than start has an epsilon production, or a variable reaches itself through
\* unit productions, raises an error and leaves variables, start and every
\* production set as they were.
C15_AbortsUnchanged ==
    (Called("remove_left_recursion") /\ (NonStartEpsilon(pre) \/ UnitCycle(pre))) =>
        /\ raised
        /\ variables = pre.variables
        /\ start = pre.start
        /\ rules = pre.rules

\* the last call told its caller that it failed
Failed == raised \/ returned = "False"

\* C16: firsts and left_factoring called on a grammar in which some variable
\* derives a string beginning with itself end in a failure the caller is
\* told of: firsts computes no FIRST set, left_factoring leaves the grammar
\* as it was, and neither completes normally.
C16_LeftRecursionFails ==
    /\ (Called("firsts") /\ BeginsWithItself(Self)) => pc = "refused" /\ Failed
    /\ (Called("left_factoring") /\ BeginsWithItself(pre)) =>
            pc # "hung" /\ Failed /\ variables = pre.variables /\ rules = pre.rules

\* C17: left_factoring called on a grammar for which has_left_recursion() is
\* false returns: True, having printed the number of the pass, below the
\* ceiling, that found nothing to repair, or False; it raises nothing.
C17_FactoringTerminates ==
    (Called("left_factoring") /\ ~has_left_recursion(pre)) =>
        /\ pc # "hung"
        /\ ~raised
        /\ returned \in {"True", "False"}
        /\ returned = "True" =>
              \E i \in 0..(Ceiling - 1) : printed[Len(printed)] = FINISHED(i)

\* C18: after any sequence of calls of the transforms and left_factoring on a
\* loaded grammar, variables is not empty, start is one of the variables and
\* the production map has a key for each variable and no other key.
C18_Structure ==
    pc # "hung" =>
        /\ Len(variables) > 0
        /\ start \in Range(variables)
        /\ DOMAIN rules = Range(variables)

\* left_factoring, called after another transform, made a new variable
C18_Witness ==
    /\ Len(hist) >= 2
    /\ Called("left_factoring")
    /\ hist[Len(hist) - 1] \notin {"left_factoring", "firsts"}
    /\ returned = "True"
    /\ Len(variables) > Len(pre.variables)

(***************************************************************************)
(* C19: the grammar having no left recursion (no variable derives a string *)
(* beginning with itself) and its table no conflict, every parse that has  *)
(* started comes to return True or False.                                  *)
(***************************************************************************)
ParserPrecondition == ConflictFree /\ ~BeginsWithItself(Self)

\* C19: under the parser's precondition a parse in progress leads to accept or reject
C19_ParseTerminates ==
    (pc \in {"parse", "word"} /\ ParserPrecondition) ~> (pc = "done" /\ result \in {"accept", "reject"})

\* a parse that went through expansions under the precondition and came to accept
C19_Witness ==
    /\ pc = "done" /\ ParserPrecondition
    /\ result = "accept" /\ Len(Word) >= 3
    /\ \E v \in Range(variables) : v \in Range(Flatten(rules[v]))

(***************************************************************************)
(* C20: parse run alone, as a function of the parser and the input: the    *)
(* verdict after at most fuel turns of its loop.                           *)
(***************************************************************************)
RECURSIVE Alone(_, _, _, _, _)
Alone(p, input, stk, i, fuel) ==
    IF fuel = 0 THEN "running"
    ELSE IF stk[Len(stk)] = input[i + 1]
    THEN IF input[i + 1] = "$" THEN "accept"
         ELSE Alone(p, input, SubSeq(stk, 1, Len(stk) - 1), i + 1, fuel - 1)
    ELSE IF <<stk[Len(stk)], input[i + 1]>> \notin DOMAIN p.table THEN "reject"
    ELSE LET action == p.table[<<stk[Len(stk)], input[i + 1]>>]
             popped == SubSeq(stk, 1, Len(stk) - 1)
         IN Alone(p, input, IF action # EPS THEN popped \o reversed(action) ELSE popped, i, fuel - 1)

Fuel == 40

VerdictAlone(p, input) ==
    IF p.variables = <<>> THEN "error" ELSE Alone(p, input, <<"$", p.variables[1]>>, 0, Fuel)

\* C20: no turn of either invocation writes the parser, and the verdict each
\* invocation returns is the one parse returns on its input when run alone
C20_Interleaved ==
    /\ [][(pc \in {"parser", "parse", "done"}) => parser' = parser]_vars
    /\ [](result \in {"accept", "reject"} => result = VerdictAlone(parser, string))
    /\ [](other.result \in {"accept", "reject"} => other.result = VerdictAlone(parser, other.string))

\* the second invocation has run to its verdict while the first, on another
\* input that parse accepts, was part of the way through its own
C20_Witness ==
    /\ pc = "parse" /\ pos >= 1 /\ VerdictAlone(parser, string) = "accept"
    /\ other.result = "reject" /\ other.pos >= 1

WellFormed(G) ==
    \A v \in DOMAIN G.rules : \A prod \in Prods(G, v) :
        prod = EPS \/ (Len(prod) > 0 /\ "&" \notin Range(prod))

\* C22: a transform that accepts a valid grammar (remove_left_recursion on a
\* grammar whose start has an epsilon production included) leaves every
\* production either exactly epsilon or non-empty and free of the epsilon marker.
C22_WellFormedKept ==
    (hist # <<>> /\ ~raised /\ Valid(pre) /\ WellFormed(pre)) => WellFormed(Self)

\* C23: the start deriving some terminal string, remove_unproductives leaves
\* exactly the variables that derive a terminal string, each with exactly its
\* former productions made of such variables, terminals and epsilon, and no
\* variable without productions.
C23_ProductivesKept ==
    (Did("remove_unproductives") /\ Valid(pre) /\ Productive(pre)) =>
        LET P == ProductiveClosure(pre, {})
        IN /\ Range(variables) = P
           /\ DOMAIN rules = P
           /\ \A v \in P :
                 /\ Prods(Self, v) =
                       {prod \in Prods(pre, v) : Range(prod) \subseteq P \cup Range(pre.terminals) \cup {"&"}}
                 /\ Len(rules[v]) > 0

\* a call that removed a variable and a production of a variable it kept
C23_Witness ==
    /\ Did("remove_unproductives") /\ Valid(pre) /\ Productive(pre)
    /\ Len(variables) < Len(pre.variables)
    /\ \E v \in Range(variables) : Len(rules[v]) < Len(pre.rules[v])

\* C24: the start deriving no terminal string, remove_unproductives leaves
\* the start as the only variable, the terminals as they were, and start ->
\* start as the only production, one symbol long whatever the name of start.
C24_EmptyLanguage ==
    (Did("remove_unproductives") /\ Valid(pre) /\ ~Productive(pre)) =>
        /\ variables = <<pre.start>>
        /\ start = pre.start
        /\ terminals = pre.terminals
        /\ DOMAIN rules = {start}
        /\ Len(rules[start]) = 1
        /\ Len(rules[start][1]) = 1
        /\ item(rules[start][1][1]) = start

\* the variables reached from the set S along edges head -> variable that
\* occurs in a production of head, S included
RECURSIVE ReachedFrom(_, _)
ReachedFrom(G, S) ==
    LET S2 == S \cup {u \in Range(G.variables) :
                        \E v \in S : \E prod \in Prods(G, v) : u \in Range(prod)}
    IN IF S2 = S THEN S ELSE ReachedFrom(G, S2)

\* C25: after remove_unreachables the variables are exactly those reached
\* from start through occurrences anywhere in production bodies, each with
\* the productions it had; terminals and start are as before.
C25_ReachablesKept ==
    (Did("remove_unreachables") /\ Valid(pre)) =>
        /\ Range(variables) = ReachedFrom(pre, {pre.start})
        /\ DOMAIN rules = ReachedFrom(pre, {pre.start})
        /\ \A v \in DOMAIN rules : rules[v] = pre.rules[v]
        /\ terminals = pre.terminals
        /\ start = pre.start

\* a call that removed a variable and kept one, other than start, that
\* occurs in no body at the first position
C25_Witness ==
    /\ Did("remove_unreachables") /\ Valid(pre)
    /\ Range(variables) # Range(pre.variables)
    /\ \E v \in Range(variables) \ {start} :
          \A u \in Range(pre.variables) : \A prod \in Prods(pre, u) : prod[1] # v

\* c heads the rest of the chain of prod from position k on: c is not a
\* variable of G, and its one production is prod[k] followed by the head of
\* the rest, or the last two symbols of prod
RECURSIVE ChainFrom(_, _, _, _, _)
ChainFrom(G, H, c, prod, k) ==
    /\ c \in Range(H.variables) \ Range(G.variables)
    /\ c \in DOMAIN H.rules
    /\ IF k = Len(prod) - 1
          THEN Prods(H, c) = {<<prod[k], prod[k + 1]>>}
          ELSE \E c2 \in Range(H.variables) :
                  /\ Prods(H, c) = {<<prod[k], c2>>}
                  /\ ChainFrom(G, H, c2, prod, k + 1)

\* the productions of v in H that stand for prod of G
ChainHeads(G, H, prod) ==
    IF Len(prod) <= 2
      THEN {prod}
      ELSE {<<prod[1], c>> : c \in {c \in Range(H.variables) : ChainFrom(G, H, c, prod, 2)}}

\* the productions of G in which the symbol c occurs
Occurrences(G, c) ==
    UNION {{<<v, prod>> : prod \in {q \in Prods(G, v) : c \in Range(q)}} : v \in DOMAIN G.rules}

\* one element for each chain variable the grammar G calls for
ChainLinks(G) ==
    UNION {UNION {{<<v, prod, j>> : j \in 2..(Len(prod) - 1)} : prod \in Prods(G, v)} :
              v \in Range(G.variables)}

\* C26: reduce_size leaves productions of at most two symbols; each longer
\* one has become its right-associated chain through variables that were
\* not in the grammar, one for each link, every other production is kept.
C26_Chains ==
    (Did("reduce_size") /\ Valid(pre)) =>
        /\ \A v \in DOMAIN rules : \A prod \in Prods(Self, v) : Len(prod) <= 2
        /\ Range(pre.variables) \subseteq Range(variables)
        /\ DOMAIN rules = Range(variables)
        /\ \A v \in Range(pre.variables) :
              /\ \A prod \in Prods(pre, v) : ChainHeads(pre, Self, prod) \cap Prods(Self, v) # {}
              /\ Prods(Self, v) \subseteq UNION {ChainHeads(pre, Self, prod) : prod \in Prods(pre, v)}
              /\ Cardinality(Prods(Self, v)) = Cardinality(Prods(pre, v))
        /\ Cardinality(Range(variables) \ Range(pre.variables)) = Cardinality(ChainLinks(pre))
        /\ \A c \in Range(variables) \ Range(pre.variables) :
              Cardinality(Occurrences(Self, c)) = 1
        /\ Len(variables) = Cardinality(Range(variables))
        /\ terminals = pre.terminals
        /\ start = pre.start

\* a call that made a chain of two variables
C26_Witness ==
    /\ Did("reduce_size") /\ Valid(pre)
    /\ \E v \in Range(pre.variables) : \E prod \in Prods(pre, v) : Len(prod) >= 4

\* C27: every parse that enters its loop does so with the stack [$, start],
\* start being the start variable of the grammar the table was made from,
\* wherever start stands among the declared variables.
C27_StartOnStack ==
    [][(Parse /\ result' = "running") => stack' = <<"$", start>>]_vars

\* the productions P with each one that begins with the variable u replaced
\* by the productions of u in H, each followed by the rest of the one replaced
Substituted(H, P, u) ==
    {prod \in P : prod[1] # u} \cup
    UNION {{beta \o Tail(prod) : beta \in Prods(H, u)} : prod \in {q \in P : q[1] = u}}

\* the productions of the i-th variable of G once those beginning with the
\* first j variables have been replaced, in turn, by what H gives these
RECURSIVE AfterSubstitution(_, _, _, _)
AfterSubstitution(G, H, i, j) ==
    IF j = 0
      THEN Prods(G, G.variables[i])
      ELSE Substituted(H, AfterSubstitution(G, H, i, j - 1), G.variables[j])

\* the i-th variable of G begins one of its productions, after substitution
DirectlyRecursive(G, H, i) ==
    \E prod \in AfterSubstitution(G, H, i, i - 1) : prod[1] = G.variables[i]

\* C28: remove_left_recursion splits each variable i that, after
\* substitution, begins one of its own productions: the primed variable is
\* new to the grammar, i keeps its other productions with the primed
\* variable appended, and the primed variable gets the rest of those that
\* began with i, the primed variable appended, and the epsilon production.
C28_PrimedVariable ==
    (Did("remove_left_recursion") /\ Valid(pre)) =>
        \A i \in 1..Len(pre.variables) :
            DirectlyRecursive(pre, Self, i) =>
                LET var == pre.variables[i]
                    after == AfterSubstitution(pre, Self, i, i - 1)
                IN /\ primed(var) \notin Range(pre.variables)
                   /\ primed(var) \in Range(variables)
                   /\ primed(var) \in DOMAIN rules
                   /\ Prods(Self, var) =
                         {Append(prod, primed(var)) : prod \in {q \in after : q[1] # var}}
                   /\ Prods(Self, primed(var)) =
                         {Append(Tail(prod), primed(var)) : prod \in {q \in after : q[1] = var}}
                            \cup {EPS}

\* S -> Sa | b has become S -> bS', S' -> aS' | &
C28_Witness ==
    /\ Did("remove_left_recursion") /\ Valid(pre)
    /\ Prods(pre, "S") = {<<"S", "a">>, <<"b">>}
    /\ Prods(Self, "S") = {<<"b", primed("S")>>}
    /\ Prods(Self, primed("S")) = {<<"a", primed("S")>>, EPS}

\* no production in the parser's table holds the end marker
NoDollar == \A key \in DOMAIN parser.table : "$" \notin Range(parser.table[key])

\* C29: all through a parse over a table without "$" in its productions the
\* stack is not empty, has "$" at the bottom and nowhere else; so it is
\* ["$"] when the parse accepts, and the assertion at accept does not fail.
C29_StackBottom ==
    (pc \in {"parse", "done"} /\ result # "error" /\ NoDollar) =>
        /\ stack # <<>>
        /\ stack[1] = "$"
        /\ \A k \in 2..Len(stack) : stack[k] # "$"
        /\ result = "accept" => stack = <<"$">>
        /\ result # "AssertionError"

\* a parse that accepted a word of two symbols or more
C29_Witness ==
    /\ pc = "done"
    /\ parser # NoParser
    /\ result = "accept"
    /\ Len(string) >= 3
    /\ NoDollar

====
